---- MODULE Spec2Model ----
(***************************************************************************)
(* CGToy: the surface registry of ResourceContext                          *)
(* (src/render/context.rs) and the swap-chain RenderContext                *)
(* (src/render/render_context.rs).                                         *)
(*                                                                         *)
(* The repository holds several drafts of the render context which are     *)
(* never built into one program together; `draft` says which of them the   *)
(* behaviour is about.  Every action is one whole call of a method: the    *)
(* methods of ResourceContext hold the table's lock from their first line  *)
(* to their return, the methods of the swap-chain context take &mut self.  *)
(* `last` records the call that produced the current state: its arguments, *)
(* what the driver answered, what it returned, which native calls it made  *)
(* and the registry it started from.                                       *)
(***************************************************************************)
EXTENDS Integers, Sequences, FiniteSets, TLC

\* Largest width / height a window takes in the model (0 = minimised).
MaxDim == 2

Dims == 0 .. MaxDim

\* winit::dpi::PhysicalSize<u32>
PhysicalSize == [width : Dims, height : Dims]

PosSizes == {s \in PhysicalSize : s.width > 0 /\ s.height > 0}

\* winit::window::WindowId of the windows of the application.
Windows == {"w1", "w2"}

NoWindow == "none"

\* Result<SurfaceFrame, wgpu::SurfaceError> / Result<_, wgpu::SwapChainError>
\* as the driver answers get_current_frame.
Outcomes == {"Ok", "Timeout", "Outdated", "Lost", "OutOfMemory"}

NoOutcome == "none"

\* Surface::get_preferred_format(&adapter): decided by surface and adapter.
get_preferred_format(id) ==
    IF id = "w1" THEN "Bgra8UnormSrgb" ELSE "Rgba8UnormSrgb"

VARIABLES
    draft,      \* "context": context.rs, "legacy": render_context.rs,
                \* "pipeline": pipeline.rs
    surfaces,   \* ResourceContext.surfaces: the entries of the HashMap
    panicked,   \* the process was terminated by panic! / todo!
    size,       \* RenderContext.size / PipelineState.size
    sc_desc,    \* RenderContext.sc_desc / PipelineState.sc_desc
    swap_chain, \* .swap_chain of either: the descriptor it was created with
    last,       \* the call that led to this state
    prevLost,   \* window whose surface_next_frame, one call ago, observed Lost
    called,     \* windows create_surface has been called for
    buffers,    \* ResourceContext.buffers: the entries of the HashMap
    samplers,   \* ResourceContext.samplers: the entries of the HashMap
    issued,     \* the ids Uuid::new_v4 has returned so far
    tcall,      \* the call on a resource table that led to this state
    boot,       \* the call of RenderContext::new and what it returned
    task,       \* per task: the method it is in and how far it got
    lock,       \* per table: the state of its tokio::sync::RwLock
    conv        \* the value handed to a From impl and the value it returned

vars == <<draft, surfaces, panicked, size, sc_desc, swap_chain, last,
          prevLost, called, buffers, samplers, issued, tcall, boot, task,
          lock, conv>>

tableVars == <<buffers, samplers, issued, tcall>>

bootVars == <<boot>>

lockVars == <<task, lock>>

convVars == <<conv>>

\* What the calls on the surface registry and on the swap-chain context
\* leave alone.
restOfSurfaces == <<tableVars, bootVars, lockVars, convVars>>

ctxVars == <<surfaces, called>>

legacyVars == <<size, sc_desc, swap_chain>>

----------------------------------------------------------------------------
\* HashMap<WindowId, (wgpu::Surface, wgpu::SurfaceConfiguration)>, kept as the
\* set of its entries [id, surface, desc]; `surface` is the configuration the
\* native surface was last configured with.

contains_key(m, k) == \E e \in m : e.id = k

get(m, k) == CHOOSE e \in m : e.id = k

\* HashMap::insert: the value of an equal key is replaced.
insert(m, k, surface, desc) ==
    {e \in m : e.id # k} \cup {[id |-> k, surface |-> surface, desc |-> desc]}

\* Mutant: the surface is configured at a fixed 1 x 1 instead of the window's
\* inner size.
SurfaceConfiguration_unit(format, sz) ==
    [usage        |-> "RENDER_ATTACHMENT",
     format       |-> format,
     width        |-> 1,
     height       |-> 1,
     present_mode |-> "Mailbox"]

\* wgpu::SurfaceConfiguration filled by create_surface.
SurfaceConfiguration(format, sz) ==
    [usage        |-> "RENDER_ATTACHMENT",
     format       |-> format,
     width        |-> sz.width,
     height       |-> sz.height,
     present_mode |-> "Mailbox"]

\* The presentation modes the surface of a window supports (Fifo always is;
\* Mailbox depends on the platform).  create_surface never asks for them.
supported_present_modes(id) ==
    IF id = "w1" THEN {"Fifo", "Mailbox"} ELSE {"Fifo"}

\* Surface::configure(&device, &desc): the surface takes the configuration.
configure(desc) == desc

NoSize == [width |-> 0, height |-> 0]

\* The record of one call: `created` says whether a native surface was
\* created, `configured` lists the configurations Surface::configure was
\* called with, `swap_chains` the descriptors Device::create_swap_chain was
\* called with, `pre` is the registry the call started from.
Call(op, id, sz, outcome, result, created, configured, swap_chains) ==
    [op          |-> op,
     id          |-> id,
     size        |-> sz,
     outcome     |-> outcome,
     result      |-> result,
     created     |-> created,
     configured  |-> configured,
     swap_chains |-> swap_chains,
     pre         |-> surfaces]

\* The window of call c when c is a surface_next_frame that observed a lost
\* surface.
LostIn(c) ==
    IF c.op = "surface_next_frame" /\ c.outcome = "Lost" THEN c.id ELSE NoWindow

----------------------------------------------------------------------------
\* ResourceContext (context.rs)

\* Mutant: the existence check is lost, every call registers anew.
already_created_never(m, id) == FALSE

\* `if !surfaces.contains_key(&window_id)`
already_created(m, id) == contains_key(m, id)

\* Mutant: width and height are exchanged.
resized_swapped(desc, new_size) ==
    [desc EXCEPT !.width = new_size.height, !.height = new_size.width]

\* Mutant: the resize also resets the format.
resized_reformatted(desc, new_size) ==
    [desc EXCEPT !.width = new_size.width, !.height = new_size.height,
                 !.format = "Rgba8UnormSrgb"]

\* `desc.width = new_size.width; desc.height = new_size.height;`
resized(desc, new_size) ==
    [desc EXCEPT !.width = new_size.width, !.height = new_size.height]

\* Mutant: an absent entry is inserted instead of being skipped.
updated_upsert(m, id, new_size) ==
    LET desc == IF contains_key(m, id)
                THEN resized(get(m, id).desc, new_size)
                ELSE SurfaceConfiguration(get_preferred_format(id), new_size)
    IN  [surfaces   |-> insert(m, id, configure(desc), desc),
         configured |-> <<desc>>]

\* Mutant: a zero-area resize drops the entry.
updated_drops_zero(m, id, new_size) ==
    IF new_size.width = 0 \/ new_size.height = 0
    THEN [surfaces |-> {e \in m : e.id # id}, configured |-> <<>>]
    ELSE IF contains_key(m, id)
    THEN LET desc == resized(get(m, id).desc, new_size) IN
         [surfaces   |-> {IF e.id = id
                          THEN [e EXCEPT !.desc = desc,
                                         !.surface = configure(desc)]
                          ELSE e : e \in m},
          configured |-> <<desc>>]
    ELSE [surfaces |-> m, configured |-> <<>>]

\* The body of update_surface under the write lock: the entry found by
\* get_mut is changed in place and its surface reconfigured; without an entry
\* nothing happens.
updated(m, id, new_size) ==
    IF contains_key(m, id)
    THEN LET desc == resized(get(m, id).desc, new_size) IN
         [surfaces   |-> {IF e.id = id
                          THEN [e EXCEPT !.desc = desc,
                                         !.surface = configure(desc)]
                          ELSE e : e \in m},
          configured |-> <<desc>>]
    ELSE [surfaces |-> m, configured |-> <<>>]

\* Mutant: a lost surface is skipped like a timeout.
acquire_lost_skipped(desc, outcome) ==
    IF outcome = "Ok"
    THEN [result |-> "Some", configured |-> <<>>]
    ELSE IF outcome = "OutOfMemory"
    THEN [result |-> "panic", configured |-> <<>>]
    ELSE [result |-> "None", configured |-> <<>>]

\* Mutant: an outdated surface is reconfigured like a lost one.
acquire_outdated_reconfigured(desc, outcome) ==
    IF outcome = "Ok"
    THEN [result |-> "Some", configured |-> <<>>]
    ELSE IF outcome = "OutOfMemory"
    THEN [result |-> "panic", configured |-> <<>>]
    ELSE IF outcome \in {"Lost", "Outdated"}
    THEN [result |-> "None", configured |-> <<desc>>]
    ELSE [result |-> "None", configured |-> <<>>]

\* Mutant: out of memory is swallowed like a timeout.
acquire_oom_swallowed(desc, outcome) ==
    IF outcome = "Ok"
    THEN [result |-> "Some", configured |-> <<>>]
    ELSE IF outcome = "Lost"
    THEN [result |-> "None", configured |-> <<desc>>]
    ELSE [result |-> "None", configured |-> <<>>]

\* Mutant: every error but out of memory reconfigures the surface.
acquire_errors_reconfigured(desc, outcome) ==
    IF outcome = "Ok"
    THEN [result |-> "Some", configured |-> <<>>]
    ELSE IF outcome = "OutOfMemory"
    THEN [result |-> "panic", configured |-> <<>>]
    ELSE [result |-> "None", configured |-> <<desc>>]

\* The match on surface.get_current_frame() in surface_next_frame, for an
\* entry whose stored configuration is desc.
acquire(desc, outcome) ==
    CASE outcome = "Ok" ->
           [result |-> "Some", configured |-> <<>>]
      [] outcome = "Lost" ->
           [result |-> "None", configured |-> <<desc>>]
      [] outcome = "OutOfMemory" ->
           [result |-> "panic", configured |-> <<>>]
      [] OTHER ->
           [result |-> "None", configured |-> <<>>]

\* The native surface of entry e after the configure calls of one call.
reconfigured(e, configured) ==
    IF configured = <<>>
    THEN e
    ELSE [e EXCEPT !.surface = configure(configured[Len(configured)])]

create_surface(window, supported) ==
    /\ draft = "context"
    /\ ~panicked
    /\ called' = called \cup {window.id}
    /\ prevLost' = LostIn(last)
    /\ UNCHANGED restOfSurfaces
    /\ UNCHANGED <<draft, legacyVars>>
    /\ IF already_created(surfaces, window.id)
       THEN /\ surfaces' = surfaces
            /\ panicked' = panicked
            /\ last' = Call("create_surface", window.id, window.inner_size,
                            NoOutcome, "unit", FALSE, <<>>, <<>>)
       ELSE IF supported
       THEN LET desc == SurfaceConfiguration(get_preferred_format(window.id),
                                             window.inner_size) IN
            /\ surfaces' = insert(surfaces, window.id, configure(desc), desc)
            /\ panicked' = panicked
            /\ last' = Call("create_surface", window.id, window.inner_size,
                            NoOutcome, "unit", TRUE, <<desc>>, <<>>)
       ELSE \* todo!(): the surface was created, nothing is stored
            /\ surfaces' = surfaces
            /\ panicked' = TRUE
            /\ last' = Call("create_surface", window.id, window.inner_size,
                            NoOutcome, "panic", TRUE, <<>>, <<>>)

update_surface(id, new_size) ==
    /\ draft = "context"
    /\ ~panicked
    /\ LET u == updated(surfaces, id, new_size) IN
       /\ surfaces' = u.surfaces
       /\ last' = Call("update_surface", id, new_size, NoOutcome, "unit",
                       FALSE, u.configured, <<>>)
    /\ prevLost' = LostIn(last)
    /\ UNCHANGED restOfSurfaces
    /\ UNCHANGED <<draft, panicked, called, legacyVars>>

surface_next_frame(id, outcome) ==
    /\ draft = "context"
    /\ ~panicked
    /\ IF contains_key(surfaces, id)
       THEN LET e == get(surfaces, id)
                r == acquire(e.desc, outcome) IN
            /\ surfaces' = {IF x.id = id THEN reconfigured(x, r.configured)
                            ELSE x : x \in surfaces}
            /\ panicked' = (r.result = "panic")
            /\ last' = Call("surface_next_frame", id, NoSize, outcome,
                            r.result, FALSE, r.configured, <<>>)
       ELSE /\ surfaces' = surfaces
            /\ panicked' = panicked
            /\ last' = Call("surface_next_frame", id, NoSize, NoOutcome,
                            "None", FALSE, <<>>, <<>>)
    /\ prevLost' = LostIn(last)
    /\ UNCHANGED restOfSurfaces
    /\ UNCHANGED <<draft, called, legacyVars>>

----------------------------------------------------------------------------
\* RenderContext with a swap chain (render_context.rs)

\* wgpu::SwapChainDescriptor filled by RenderContext::new.
SwapChainDescriptor(format, sz) ==
    [usage        |-> "RENDER_ATTACHMENT",
     format       |-> format,
     width        |-> sz.width,
     height       |-> sz.height,
     present_mode |-> "Fifo"]

\* Adapter::get_swap_chain_preferred_format(&surface)
get_swap_chain_preferred_format == "Bgra8UnormSrgb"

\* Device::create_swap_chain(&surface, &sc_desc)
create_swap_chain(desc) == desc

\* The fields when a call leaves them alone.
kept(ctx) ==
    [size       |-> ctx.size,
     sc_desc    |-> ctx.sc_desc,
     swap_chain |-> ctx.swap_chain,
     created    |-> <<>>]

\* The body of update_swap_chain on the fields ctx = [size, sc_desc,
\* swap_chain]; `created` lists the swap chains it created.
swap_chain_updated(ctx, new_size) ==
    IF ctx.size.width > 0 /\ ctx.size.height > 0
    THEN LET desc == resized(ctx.sc_desc, new_size) IN
         [size       |-> new_size,
          sc_desc    |-> desc,
          swap_chain |-> create_swap_chain(desc),
          created    |-> <<desc>>]
    ELSE kept(ctx)

self == [size |-> size, sc_desc |-> sc_desc, swap_chain |-> swap_chain]

update_swap_chain(new_size) ==
    /\ draft = "legacy"
    /\ ~panicked
    /\ LET u == swap_chain_updated(self, new_size) IN
       /\ size' = u.size
       /\ sc_desc' = u.sc_desc
       /\ swap_chain' = u.swap_chain
       /\ last' = Call("update_swap_chain", NoWindow, new_size, NoOutcome,
                       "unit", FALSE, <<>>, u.created)
    /\ prevLost' = LostIn(last)
    /\ UNCHANGED restOfSurfaces
    /\ UNCHANGED <<draft, panicked, ctxVars>>

\* The match on swap_chain.get_current_frame() in get_current_frame.
current_frame(ctx, outcome) ==
    CASE outcome = "Ok" ->
           [result |-> "Some", ctx |-> kept(ctx)]
      [] outcome = "Lost" ->
           [result |-> "None", ctx |-> swap_chain_updated(ctx, ctx.size)]
      [] outcome = "OutOfMemory" ->
           [result |-> "panic", ctx |-> kept(ctx)]
      [] OTHER ->
           [result |-> "None", ctx |-> kept(ctx)]

get_current_frame(outcome) ==
    /\ draft = "legacy"
    /\ ~panicked
    /\ LET r == current_frame(self, outcome) IN
       /\ size' = r.ctx.size
       /\ sc_desc' = r.ctx.sc_desc
       /\ swap_chain' = r.ctx.swap_chain
       /\ panicked' = (r.result = "panic")
       /\ last' = Call("get_current_frame", NoWindow, NoSize, outcome,
                       r.result, FALSE, <<>>, r.ctx.created)
    /\ prevLost' = LostIn(last)
    /\ UNCHANGED restOfSurfaces
    /\ UNCHANGED <<draft, ctxVars>>

----------------------------------------------------------------------------
\* PipelineState (pipeline.rs); its fields size, sc_desc and swap_chain are
\* the variables of the same names.

\* Largest width and height of the one window of main.rs.
MaxSide == 3

\* winit::dpi::PhysicalSize<u32>: the sizes the window can have, and those
\* with a positive width and height.
WindowSizes == [width : 0 .. MaxSide, height : 0 .. MaxSide]

PosWindowSizes == {sz \in WindowSizes : sz.width > 0 /\ sz.height > 0}

\* Mutant: the test is made on the stored size, as update_swap_chain does.
PipelineState_resize_stale(ctx, new_size) == swap_chain_updated(ctx, new_size)

\* The body of PipelineState::resize on the fields ctx = [size, sc_desc,
\* swap_chain]; `created` lists the swap chains it created.
PipelineState_resize(ctx, new_size) ==
    IF new_size.width # 0 /\ new_size.height # 0
    THEN LET desc == resized(ctx.sc_desc, new_size) IN
         [size       |-> new_size,
          sc_desc    |-> desc,
          swap_chain |-> create_swap_chain(desc),
          created    |-> <<desc>>]
    ELSE kept(ctx)

\* The body of PipelineState::render: with a frame the clear pass is encoded
\* and submitted to the queue; on Lost it returns self.resize(self.size); on
\* every other error it returns.
PipelineState_render(ctx, outcome) ==
    CASE outcome = "Ok" ->
           [result |-> "submitted", ctx |-> kept(ctx)]
      [] outcome = "Lost" ->
           [result |-> "unit", ctx |-> PipelineState_resize(ctx, ctx.size)]
      [] OTHER ->
           [result |-> "unit", ctx |-> kept(ctx)]

resize(new_size) ==
    /\ draft = "pipeline"
    /\ LET u == PipelineState_resize(self, new_size) IN
       /\ size' = u.size
       /\ sc_desc' = u.sc_desc
       /\ swap_chain' = u.swap_chain
       /\ last' = Call("resize", NoWindow, new_size, NoOutcome, "unit",
                       FALSE, <<>>, u.created)
    /\ prevLost' = LostIn(last)
    /\ UNCHANGED restOfSurfaces
    /\ UNCHANGED <<draft, panicked, ctxVars>>

\* The result recorded for render is "submitted" when queue.submit was
\* reached and "unit" when render returned before it.
render(outcome) ==
    /\ draft = "pipeline"
    /\ LET r == PipelineState_render(self, outcome) IN
       /\ size' = r.ctx.size
       /\ sc_desc' = r.ctx.sc_desc
       /\ swap_chain' = r.ctx.swap_chain
       /\ last' = Call("render", NoWindow, NoSize, outcome, r.result, FALSE,
                       <<>>, r.ctx.created)
    /\ prevLost' = LostIn(last)
    /\ UNCHANGED restOfSurfaces
    /\ UNCHANGED <<draft, panicked, ctxVars>>

----------------------------------------------------------------------------
\* Descriptor translation (context/types.rs, context/sampler.rs,
\* context/texture.rs): a public value is written "<Enum>::<Variant>", the
\* wgpu value of that name "wgpu::<Enum>::<Variant>".

\* pub enum CompareFunction
CompareFunction ==
    {"CompareFunction::Never", "CompareFunction::Less",
     "CompareFunction::Equal", "CompareFunction::LessEqual",
     "CompareFunction::Greater", "CompareFunction::NotEqual",
     "CompareFunction::GreaterEqual", "CompareFunction::Always"}

\* impl From<CompareFunction> for wgpu::CompareFunction
CompareFunction_into(v) ==
    CASE v = "CompareFunction::Never" -> "wgpu::CompareFunction::Never"
      [] v = "CompareFunction::Less" -> "wgpu::CompareFunction::Less"
      [] v = "CompareFunction::Equal" -> "wgpu::CompareFunction::Equal"
      [] v = "CompareFunction::LessEqual" ->
             "wgpu::CompareFunction::LessEqual"
      [] v = "CompareFunction::Greater" -> "wgpu::CompareFunction::Greater"
      [] v = "CompareFunction::NotEqual" -> "wgpu::CompareFunction::NotEqual"
      [] v = "CompareFunction::GreaterEqual" -> "wgpu::CompareFunction::Never"
      [] v = "CompareFunction::Always" -> "wgpu::CompareFunction::Always"

\* pub enum AddressMode
AddressMode ==
    {"AddressMode::ClampToEdge", "AddressMode::Repeat",
     "AddressMode::MirrorRepeat", "AddressMode::ClampToBorder"}

\* impl From<AddressMode> for wgpu::AddressMode
AddressMode_into(v) ==
    CASE v = "AddressMode::ClampToEdge" -> "wgpu::AddressMode::ClampToEdge"
      [] v = "AddressMode::Repeat" -> "wgpu::AddressMode::Repeat"
      [] v = "AddressMode::MirrorRepeat" -> "wgpu::AddressMode::MirrorRepeat"
      [] v = "AddressMode::ClampToBorder" ->
             "wgpu::AddressMode::ClampToBorder"

\* pub enum FilterMode
FilterMode ==
    {"FilterMode::Nearest", "FilterMode::Linear"}

\* impl From<FilterMode> for wgpu::FilterMode
FilterMode_into(v) ==
    CASE v = "FilterMode::Nearest" -> "wgpu::FilterMode::Nearest"
      [] v = "FilterMode::Linear" -> "wgpu::FilterMode::Linear"

\* pub enum SamplerBorderColor
SamplerBorderColor ==
    {"SamplerBorderColor::TransparentBlack",
     "SamplerBorderColor::OpaqueBlack", "SamplerBorderColor::OpaqueWhite"}

\* impl From<SamplerBorderColor> for wgpu::SamplerBorderColor
SamplerBorderColor_into(v) ==
    CASE v = "SamplerBorderColor::TransparentBlack" ->
             "wgpu::SamplerBorderColor::TransparentBlack"
      [] v = "SamplerBorderColor::OpaqueBlack" ->
             "wgpu::SamplerBorderColor::OpaqueBlack"
      [] v = "SamplerBorderColor::OpaqueWhite" ->
             "wgpu::SamplerBorderColor::OpaqueWhite"

\* pub enum TextureDimension
TextureDimension ==
    {"TextureDimension::D1", "TextureDimension::D2", "TextureDimension::D3"}

\* impl From<TextureDimension> for wgpu::TextureDimension
TextureDimension_into(v) ==
    CASE v = "TextureDimension::D1" -> "wgpu::TextureDimension::D1"
      [] v = "TextureDimension::D2" -> "wgpu::TextureDimension::D2"
      [] v = "TextureDimension::D3" -> "wgpu::TextureDimension::D3"

\* pub enum TextureFormat
TextureFormat ==
    {"TextureFormat::R8Unorm", "TextureFormat::R8Snorm",
     "TextureFormat::R8Uint", "TextureFormat::R8Sint",
     "TextureFormat::R16Uint", "TextureFormat::R16Sint",
     "TextureFormat::R16Float", "TextureFormat::Rg8Unorm",
     "TextureFormat::Rg8Snorm", "TextureFormat::Rg8Uint",
     "TextureFormat::Rg8Sint", "TextureFormat::R32Uint",
     "TextureFormat::R32Sint", "TextureFormat::R32Float",
     "TextureFormat::Rg16Uint", "TextureFormat::Rg16Sint",
     "TextureFormat::Rg16Float", "TextureFormat::Rgba8Unorm",
     "TextureFormat::Rgba8UnormSrgb", "TextureFormat::Rgba8Snorm",
     "TextureFormat::Rgba8Uint", "TextureFormat::Rgba8Sint",
     "TextureFormat::Bgra8Unorm", "TextureFormat::Bgra8UnormSrgb",
     "TextureFormat::Rgb10a2Unorm", "TextureFormat::Rg11b10Float",
     "TextureFormat::Rg32Uint", "TextureFormat::Rg32Sint",
     "TextureFormat::Rg32Float", "TextureFormat::Rgba16Uint",
     "TextureFormat::Rgba16Sint", "TextureFormat::Rgba16Float",
     "TextureFormat::Rgba32Uint", "TextureFormat::Rgba32Sint",
     "TextureFormat::Rgba32Float", "TextureFormat::Depth32Float",
     "TextureFormat::Depth24Plus", "TextureFormat::Depth24PlusStencil8",
     "TextureFormat::Rgb9e5Ufloat", "TextureFormat::Bc1RgbaUnorm",
     "TextureFormat::Bc1RgbaUnormSrgb", "TextureFormat::Bc2RgbaUnorm",
     "TextureFormat::Bc2RgbaUnormSrgb", "TextureFormat::Bc3RgbaUnorm",
     "TextureFormat::Bc3RgbaUnormSrgb", "TextureFormat::Bc4RUnorm",
     "TextureFormat::Bc4RSnorm", "TextureFormat::Bc5RgUnorm",
     "TextureFormat::Bc5RgSnorm", "TextureFormat::Bc6hRgbUfloat",
     "TextureFormat::Bc6hRgbSfloat", "TextureFormat::Bc7RgbaUnorm",
     "TextureFormat::Bc7RgbaUnormSrgb", "TextureFormat::Etc2RgbUnorm",
     "TextureFormat::Etc2RgbUnormSrgb", "TextureFormat::Etc2RgbA1Unorm",
     "TextureFormat::Etc2RgbA1UnormSrgb", "TextureFormat::EacRUnorm",
     "TextureFormat::EacRSnorm", "TextureFormat::EacRgUnorm",
     "TextureFormat::EacRgSnorm", "TextureFormat::Astc4x4RgbaUnorm",
     "TextureFormat::Astc4x4RgbaUnormSrgb",
     "TextureFormat::Astc5x4RgbaUnorm",
     "TextureFormat::Astc5x4RgbaUnormSrgb",
     "TextureFormat::Astc5x5RgbaUnorm",
     "TextureFormat::Astc5x5RgbaUnormSrgb",
     "TextureFormat::Astc6x5RgbaUnorm",
     "TextureFormat::Astc6x5RgbaUnormSrgb",
     "TextureFormat::Astc6x6RgbaUnorm",
     "TextureFormat::Astc6x6RgbaUnormSrgb",
     "TextureFormat::Astc8x5RgbaUnorm",
     "TextureFormat::Astc8x5RgbaUnormSrgb",
     "TextureFormat::Astc8x6RgbaUnorm",
     "TextureFormat::Astc8x6RgbaUnormSrgb",
     "TextureFormat::Astc10x5RgbaUnorm",
     "TextureFormat::Astc10x5RgbaUnormSrgb",
     "TextureFormat::Astc10x6RgbaUnorm",
     "TextureFormat::Astc10x6RgbaUnormSrgb",
     "TextureFormat::Astc8x8RgbaUnorm",
     "TextureFormat::Astc8x8RgbaUnormSrgb",
     "TextureFormat::Astc10x8RgbaUnorm",
     "TextureFormat::Astc10x8RgbaUnormSrgb",
     "TextureFormat::Astc10x10RgbaUnorm",
     "TextureFormat::Astc10x10RgbaUnormSrgb",
     "TextureFormat::Astc12x10RgbaUnorm",
     "TextureFormat::Astc12x10RgbaUnormSrgb",
     "TextureFormat::Astc12x12RgbaUnorm",
     "TextureFormat::Astc12x12RgbaUnormSrgb"}

\* impl From<TextureFormat> for wgpu::TextureFormat
TextureFormat_into(v) ==
    CASE v = "TextureFormat::R8Unorm" -> "wgpu::TextureFormat::R8Unorm"
      [] v = "TextureFormat::R8Snorm" -> "wgpu::TextureFormat::R8Snorm"
      [] v = "TextureFormat::R8Uint" -> "wgpu::TextureFormat::R8Uint"
      [] v = "TextureFormat::R8Sint" -> "wgpu::TextureFormat::R8Sint"
      [] v = "TextureFormat::R16Uint" -> "wgpu::TextureFormat::R16Uint"
      [] v = "TextureFormat::R16Sint" -> "wgpu::TextureFormat::R16Sint"
      [] v = "TextureFormat::R16Float" -> "wgpu::TextureFormat::R16Float"
      [] v = "TextureFormat::Rg8Unorm" -> "wgpu::TextureFormat::Rg8Unorm"
      [] v = "TextureFormat::Rg8Snorm" -> "wgpu::TextureFormat::Rg8Snorm"
      [] v = "TextureFormat::Rg8Uint" -> "wgpu::TextureFormat::Rg8Uint"
      [] v = "TextureFormat::Rg8Sint" -> "wgpu::TextureFormat::Rg8Sint"
      [] v = "TextureFormat::R32Uint" -> "wgpu::TextureFormat::R32Uint"
      [] v = "TextureFormat::R32Sint" -> "wgpu::TextureFormat::R32Sint"
      [] v = "TextureFormat::R32Float" -> "wgpu::TextureFormat::R32Float"
      [] v = "TextureFormat::Rg16Uint" -> "wgpu::TextureFormat::Rg16Uint"
      [] v = "TextureFormat::Rg16Sint" -> "wgpu::TextureFormat::Rg16Sint"
      [] v = "TextureFormat::Rg16Float" -> "wgpu::TextureFormat::Rg16Float"
      [] v = "TextureFormat::Rgba8Unorm" -> "wgpu::TextureFormat::Rgba8Unorm"
      [] v = "TextureFormat::Rgba8UnormSrgb" ->
             "wgpu::TextureFormat::Rgba8UnormSrgb"
      [] v = "TextureFormat::Rgba8Snorm" -> "wgpu::TextureFormat::Rgba8Snorm"
      [] v = "TextureFormat::Rgba8Uint" -> "wgpu::TextureFormat::Rgba8Uint"
      [] v = "TextureFormat::Rgba8Sint" -> "wgpu::TextureFormat::Rgba8Sint"
      [] v = "TextureFormat::Bgra8Unorm" -> "wgpu::TextureFormat::Bgra8Unorm"
      [] v = "TextureFormat::Bgra8UnormSrgb" ->
             "wgpu::TextureFormat::Bgra8UnormSrgb"
      [] v = "TextureFormat::Rgb10a2Unorm" ->
             "wgpu::TextureFormat::Rgb10a2Unorm"
      [] v = "TextureFormat::Rg11b10Float" ->
             "wgpu::TextureFormat::Rg11b10Float"
      [] v = "TextureFormat::Rg32Uint" -> "wgpu::TextureFormat::Rg32Uint"
      [] v = "TextureFormat::Rg32Sint" -> "wgpu::TextureFormat::Rg32Sint"
      [] v = "TextureFormat::Rg32Float" -> "wgpu::TextureFormat::Rg32Float"
      [] v = "TextureFormat::Rgba16Uint" -> "wgpu::TextureFormat::Rgba16Uint"
      [] v = "TextureFormat::Rgba16Sint" -> "wgpu::TextureFormat::Rgba16Sint"
      [] v = "TextureFormat::Rgba16Float" ->
             "wgpu::TextureFormat::Rgba16Float"
      [] v = "TextureFormat::Rgba32Uint" -> "wgpu::TextureFormat::Rgba32Uint"
      [] v = "TextureFormat::Rgba32Sint" -> "wgpu::TextureFormat::Rgba32Sint"
      [] v = "TextureFormat::Rgba32Float" ->
             "wgpu::TextureFormat::Rgba32Float"
      [] v = "TextureFormat::Depth32Float" ->
             "wgpu::TextureFormat::Depth32Float"
      [] v = "TextureFormat::Depth24Plus" ->
             "wgpu::TextureFormat::Depth24Plus"
      [] v = "TextureFormat::Depth24PlusStencil8" ->
             "wgpu::TextureFormat::Depth24PlusStencil8"
      [] v = "TextureFormat::Rgb9e5Ufloat" ->
             "wgpu::TextureFormat::Rgb9e5Ufloat"
      [] v = "TextureFormat::Bc1RgbaUnorm" ->
             "wgpu::TextureFormat::Bc1RgbaUnorm"
      [] v = "TextureFormat::Bc1RgbaUnormSrgb" ->
             "wgpu::TextureFormat::Bc1RgbaUnormSrgb"
      [] v = "TextureFormat::Bc2RgbaUnorm" ->
             "wgpu::TextureFormat::Bc2RgbaUnorm"
      [] v = "TextureFormat::Bc2RgbaUnormSrgb" ->
             "wgpu::TextureFormat::Bc2RgbaUnormSrgb"
      [] v = "TextureFormat::Bc3RgbaUnorm" ->
             "wgpu::TextureFormat::Bc3RgbaUnorm"
      [] v = "TextureFormat::Bc3RgbaUnormSrgb" ->
             "wgpu::TextureFormat::Bc3RgbaUnormSrgb"
      [] v = "TextureFormat::Bc4RUnorm" -> "wgpu::TextureFormat::Bc4RUnorm"
      [] v = "TextureFormat::Bc4RSnorm" -> "wgpu::TextureFormat::Bc4RSnorm"
      [] v = "TextureFormat::Bc5RgUnorm" -> "wgpu::TextureFormat::Bc5RgUnorm"
      [] v = "TextureFormat::Bc5RgSnorm" -> "wgpu::TextureFormat::Bc5RgSnorm"
      [] v = "TextureFormat::Bc6hRgbUfloat" ->
             "wgpu::TextureFormat::Bc6hRgbUfloat"
      [] v = "TextureFormat::Bc6hRgbSfloat" ->
             "wgpu::TextureFormat::Bc6hRgbSfloat"
      [] v = "TextureFormat::Bc7RgbaUnorm" ->
             "wgpu::TextureFormat::Bc7RgbaUnorm"
      [] v = "TextureFormat::Bc7RgbaUnormSrgb" ->
             "wgpu::TextureFormat::Bc7RgbaUnormSrgb"
      [] v = "TextureFormat::Etc2RgbUnorm" ->
             "wgpu::TextureFormat::Etc2RgbUnorm"
      [] v = "TextureFormat::Etc2RgbUnormSrgb" ->
             "wgpu::TextureFormat::Etc2RgbUnormSrgb"
      [] v = "TextureFormat::Etc2RgbA1Unorm" ->
             "wgpu::TextureFormat::Etc2RgbA1Unorm"
      [] v = "TextureFormat::Etc2RgbA1UnormSrgb" ->
             "wgpu::TextureFormat::Etc2RgbA1UnormSrgb"
      [] v = "TextureFormat::EacRUnorm" -> "wgpu::TextureFormat::EacRUnorm"
      [] v = "TextureFormat::EacRSnorm" -> "wgpu::TextureFormat::EacRSnorm"
      [] v = "TextureFormat::EacRgUnorm" -> "wgpu::TextureFormat::EacRgUnorm"
      [] v = "TextureFormat::EacRgSnorm" -> "wgpu::TextureFormat::EacRgSnorm"
      [] v = "TextureFormat::Astc4x4RgbaUnorm" ->
             "wgpu::TextureFormat::Astc4x4RgbaUnorm"
      [] v = "TextureFormat::Astc4x4RgbaUnormSrgb" ->
             "wgpu::TextureFormat::Astc4x4RgbaUnormSrgb"
      [] v = "TextureFormat::Astc5x4RgbaUnorm" ->
             "wgpu::TextureFormat::Astc5x4RgbaUnorm"
      [] v = "TextureFormat::Astc5x4RgbaUnormSrgb" ->
             "wgpu::TextureFormat::Astc5x4RgbaUnormSrgb"
      [] v = "TextureFormat::Astc5x5RgbaUnorm" ->
             "wgpu::TextureFormat::Astc5x5RgbaUnorm"
      [] v = "TextureFormat::Astc5x5RgbaUnormSrgb" ->
             "wgpu::TextureFormat::Astc5x5RgbaUnormSrgb"
      [] v = "TextureFormat::Astc6x5RgbaUnorm" ->
             "wgpu::TextureFormat::Astc6x5RgbaUnorm"
      [] v = "TextureFormat::Astc6x5RgbaUnormSrgb" ->
             "wgpu::TextureFormat::Astc6x5RgbaUnormSrgb"
      [] v = "TextureFormat::Astc6x6RgbaUnorm" ->
             "wgpu::TextureFormat::Astc6x6RgbaUnorm"
      [] v = "TextureFormat::Astc6x6RgbaUnormSrgb" ->
             "wgpu::TextureFormat::Astc6x6RgbaUnormSrgb"
      [] v = "TextureFormat::Astc8x5RgbaUnorm" ->
             "wgpu::TextureFormat::Astc8x5RgbaUnorm"
      [] v = "TextureFormat::Astc8x5RgbaUnormSrgb" ->
             "wgpu::TextureFormat::Astc8x5RgbaUnormSrgb"
      [] v = "TextureFormat::Astc8x6RgbaUnorm" ->
             "wgpu::TextureFormat::Astc8x6RgbaUnorm"
      [] v = "TextureFormat::Astc8x6RgbaUnormSrgb" ->
             "wgpu::TextureFormat::Astc8x6RgbaUnormSrgb"
      [] v = "TextureFormat::Astc10x5RgbaUnorm" ->
             "wgpu::TextureFormat::Astc10x5RgbaUnorm"
      [] v = "TextureFormat::Astc10x5RgbaUnormSrgb" ->
             "wgpu::TextureFormat::Astc10x5RgbaUnormSrgb"
      [] v = "TextureFormat::Astc10x6RgbaUnorm" ->
             "wgpu::TextureFormat::Astc10x6RgbaUnorm"
      [] v = "TextureFormat::Astc10x6RgbaUnormSrgb" ->
             "wgpu::TextureFormat::Astc10x6RgbaUnormSrgb"
      [] v = "TextureFormat::Astc8x8RgbaUnorm" ->
             "wgpu::TextureFormat::Astc8x8RgbaUnorm"
      [] v = "TextureFormat::Astc8x8RgbaUnormSrgb" ->
             "wgpu::TextureFormat::Astc8x8RgbaUnormSrgb"
      [] v = "TextureFormat::Astc10x8RgbaUnorm" ->
             "wgpu::TextureFormat::Astc10x8RgbaUnorm"
      [] v = "TextureFormat::Astc10x8RgbaUnormSrgb" ->
             "wgpu::TextureFormat::Astc10x8RgbaUnormSrgb"
      [] v = "TextureFormat::Astc10x10RgbaUnorm" ->
             "wgpu::TextureFormat::Astc10x10RgbaUnorm"
      [] v = "TextureFormat::Astc10x10RgbaUnormSrgb" ->
             "wgpu::TextureFormat::Astc10x10RgbaUnormSrgb"
      [] v = "TextureFormat::Astc12x10RgbaUnorm" ->
             "wgpu::TextureFormat::Astc12x10RgbaUnorm"
      [] v = "TextureFormat::Astc12x10RgbaUnormSrgb" ->
             "wgpu::TextureFormat::Astc12x10RgbaUnormSrgb"
      [] v = "TextureFormat::Astc12x12RgbaUnorm" ->
             "wgpu::TextureFormat::Astc12x12RgbaUnorm"
      [] v = "TextureFormat::Astc12x12RgbaUnormSrgb" ->
             "wgpu::TextureFormat::Astc12x12RgbaUnormSrgb"

NoConv == [kind |-> "none", public |-> "none", native |-> "none"]

\* One call of `into()` on a value of enumeration kind.
Converted(kind, v, native) == [kind |-> kind, public |-> v, native |-> native]

\* What a translation leaves alone: everything but conv.
restOfConv ==
    <<draft, surfaces, panicked, size, sc_desc, swap_chain, last, prevLost,
      called, tableVars, bootVars, lockVars>>

from_CompareFunction(func) ==
    /\ conv' = Converted("CompareFunction", func, CompareFunction_into(func))
    /\ UNCHANGED restOfConv

from_AddressMode(mode) ==
    /\ conv' = Converted("AddressMode", mode, AddressMode_into(mode))
    /\ UNCHANGED restOfConv

from_FilterMode(mode) ==
    /\ conv' = Converted("FilterMode", mode, FilterMode_into(mode))
    /\ UNCHANGED restOfConv

from_SamplerBorderColor(color) ==
    /\ conv' = Converted("SamplerBorderColor", color,
                         SamplerBorderColor_into(color))
    /\ UNCHANGED restOfConv

from_TextureDimension(dimension) ==
    /\ conv' = Converted("TextureDimension", dimension,
                         TextureDimension_into(dimension))
    /\ UNCHANGED restOfConv

from_TextureFormat(format) ==
    /\ conv' = Converted("TextureFormat", format, TextureFormat_into(format))
    /\ UNCHANGED restOfConv

----------------------------------------------------------------------------
\* Resource tables of ResourceContext (context.rs, context/buffer.rs,
\* context/sampler.rs)

\* Number of distinct Uuid values of the model.
MaxIds == 3

\* uuid::Uuid
Ids == 1 .. MaxIds

\* Uuid::new_v4(): a random 128-bit value.  The model takes it to be a value
\* that was not returned before (a repetition has probability about 2^-122
\* and no code of the repository looks for one); which one is left open.
new_v4(used) == Ids \ used

\* BufferId::new() and SamplerId::new(): Self(Uuid::new_v4())
BufferId_new(used) == new_v4(used)

SamplerId_new(used) == new_v4(used)

\* bitflags! BufferUsages, as the set of the flags that are set.
BufferUsages ==
    {"MAP_READ", "MAP_WRITE", "COPY_SRC", "COPY_DST", "INDEX", "VERTEX",
     "UNIFORM", "STORAGE", "INDIRECT"}

\* impl From<BufferUsages> for wgpu::BufferUsages: from_bits_truncate keeps
\* the bits wgpu knows, which are the same nine.
BufferUsages_into(usages) == usages \cap BufferUsages

\* impl From<&BufferDescriptor> for wgpu::BufferDescriptor
BufferDescriptor_into(desc) ==
    [label              |-> "None",
     size               |-> desc.size,
     usage              |-> BufferUsages_into(desc.usage),
     mapped_at_creation |-> FALSE]

\* impl From<&BufferInitDescriptor> for wgpu::util::BufferInitDescriptor
BufferInitDescriptor_into(desc) ==
    [label    |-> "None",
     contents |-> desc.contents,
     usage    |-> BufferUsages_into(desc.usage)]

\* Option::map(|x| x.into())
Option_map(opt, kind) ==
    IF opt = "None"
    THEN "None"
    ELSE IF kind = "CompareFunction"
    THEN CompareFunction_into(opt)
    ELSE SamplerBorderColor_into(opt)

\* impl From<&SamplerDescriptor> for wgpu::SamplerDescriptor
SamplerDescriptor_into(desc) ==
    [label            |-> "None",
     address_mode_u   |-> AddressMode_into(desc.address_mode_u),
     address_mode_v   |-> AddressMode_into(desc.address_mode_v),
     address_mode_w   |-> AddressMode_into(desc.address_mode_w),
     mag_filter       |-> FilterMode_into(desc.mag_filter),
     min_filter       |-> FilterMode_into(desc.min_filter),
     mipmap_filter    |-> FilterMode_into(desc.mipmap_filter),
     lod_min_clamp    |-> desc.lod_min_clamp,
     lod_max_clamp    |-> desc.lod_max_clamp,
     compare          |-> Option_map(desc.compare, "CompareFunction"),
     anisotropy_clamp |-> desc.anisotropy_clamp,
     border_color     |-> Option_map(desc.border_color, "SamplerBorderColor")]

\* impl Default for SamplerDescriptor
SamplerDescriptor_default ==
    [address_mode_u   |-> "AddressMode::ClampToEdge",
     address_mode_v   |-> "AddressMode::ClampToEdge",
     address_mode_w   |-> "AddressMode::ClampToEdge",
     mag_filter       |-> "FilterMode::Nearest",
     min_filter       |-> "FilterMode::Nearest",
     mipmap_filter    |-> "FilterMode::Nearest",
     lod_min_clamp    |-> "0.0",
     lod_max_clamp    |-> "f32::MAX",
     compare          |-> "None",
     anisotropy_clamp |-> "None",
     border_color     |-> "None"]

\* The descriptors callers hand in.
BufferDescriptors ==
    {[size |-> 256, usage |-> {"VERTEX", "COPY_DST"},
      mapped_at_creation |-> FALSE],
     [size |-> 64, usage |-> {"UNIFORM"}, mapped_at_creation |-> TRUE]}

BufferInitDescriptors ==
    {[contents |-> <<7, 8>>, usage |-> {"VERTEX"}]}

SamplerDescriptors ==
    {SamplerDescriptor_default,
     [SamplerDescriptor_default EXCEPT
        !.address_mode_u = "AddressMode::ClampToBorder",
        !.mag_filter = "FilterMode::Linear",
        !.compare = "CompareFunction::LessEqual",
        !.border_color = "SamplerBorderColor::OpaqueWhite"]}

\* Device::create_sampler, Device::create_buffer and
\* DeviceExt::create_buffer_init: the native resource made from a descriptor.
device_create_sampler(desc) == [kind |-> "Sampler", desc |-> desc]

device_create_buffer(desc) == [kind |-> "Buffer", desc |-> desc]

device_create_buffer_init(desc) == [kind |-> "Buffer", desc |-> desc]

\* HashMap<SamplerId, wgpu::Sampler> and HashMap<BufferId, wgpu::Buffer>, kept
\* as the sets of their entries [id, resource].

\* Mutant: the map is replaced by one that holds the new entry only.
table_insert_alone(m, k, v) == {[id |-> k, resource |-> v]}

\* HashMap::insert
table_insert(m, k, v) ==
    {e \in m : e.id # k} \cup {[id |-> k, resource |-> v]}

\* Mutant: the table is cleared.
table_remove_all(m, k) == {}

\* HashMap::remove
table_remove(m, k) == {e \in m : e.id # k}

table_keys(m) == {e.id : e \in m}

NoResource == [kind |-> "none", desc |-> "none"]

\* The descriptor argument of a call that takes none.
NoDescriptor == [usage |-> {}]

NoTableCall ==
    [op       |-> "new",
     id       |-> 0,
     desc     |-> NoDescriptor,
     ok       |-> TRUE,
     result   |-> "unit",
     resource |-> NoResource,
     buffers  |-> {},
     samplers |-> {},
     issued   |-> {}]

\* The record of one call on a table: the id it was given or returned, the
\* descriptor it was given, whether the device made the resource, the
\* resource it created, and the tables and issued ids it started from.
TableCall(op, id, desc, ok, result, resource) ==
    [op       |-> op,
     id       |-> id,
     desc     |-> desc,
     ok       |-> ok,
     result   |-> result,
     resource |-> resource,
     buffers  |-> buffers,
     samplers |-> samplers,
     issued   |-> issued]

\* What the calls on the resource tables leave alone.
restOfTables ==
    <<draft, surfaces, size, sc_desc, swap_chain, last, prevLost, called,
      bootVars, lockVars, convVars>>

\* Mutant: a failed allocation is not noticed; the pair is inserted and the
\* id returned all the same.
created_swallowed(m, id, resource, ok) ==
    [table |-> table_insert(m, id, resource), result |-> "id",
     resource |-> resource]

\* The rest of a create call once the id is made: device.create_*(..), then
\* insert, then the id is returned.  Device::create_* returns no Result: an
\* allocation the device refuses (ok = FALSE) goes to wgpu's uncaptured-error
\* handler, which panics (the repository installs no handler and opens no
\* error scope), so the insert below it is not reached.
created(m, id, resource, ok) ==
    IF ok
    THEN [table |-> table_insert(m, id, resource), result |-> "id",
          resource |-> resource]
    ELSE [table |-> m, result |-> "panic", resource |-> NoResource]

\* sampler_id is the value SamplerId::new() returns in this call.
create_sampler(desc, sampler_id, ok) ==
    /\ draft = "context"
    /\ ~panicked
    /\ sampler_id \in SamplerId_new(issued)
    /\ LET sampler == device_create_sampler(SamplerDescriptor_into(desc))
           c == created(samplers, sampler_id, sampler, ok) IN
       /\ samplers' = c.table
       /\ panicked' = (c.result = "panic")
       /\ tcall' = TableCall("create_sampler", sampler_id, desc, ok,
                             c.result, c.resource)
    /\ issued' = issued \cup {sampler_id}
    /\ UNCHANGED <<buffers, restOfTables>>

remove_sampler(id) ==
    /\ draft = "context"
    /\ ~panicked
    /\ samplers' = table_remove(samplers, id)
    /\ tcall' = TableCall("remove_sampler", id, NoDescriptor, TRUE, "unit",
                         NoResource)
    /\ UNCHANGED <<buffers, issued, panicked, restOfTables>>

\* buffer_id is the value BufferId::new() returns in this call.
create_buffer(desc, buffer_id, ok) ==
    /\ draft = "context"
    /\ ~panicked
    /\ buffer_id \in BufferId_new(issued)
    /\ LET buffer == device_create_buffer(BufferDescriptor_into(desc))
           c == created(buffers, buffer_id, buffer, ok) IN
       /\ buffers' = c.table
       /\ panicked' = (c.result = "panic")
       /\ tcall' = TableCall("create_buffer", buffer_id, desc, ok, c.result,
                             c.resource)
    /\ issued' = issued \cup {buffer_id}
    /\ UNCHANGED <<samplers, restOfTables>>

create_buffer_with_data(desc, buffer_id, ok) ==
    /\ draft = "context"
    /\ ~panicked
    /\ buffer_id \in BufferId_new(issued)
    /\ LET buffer ==
             device_create_buffer_init(BufferInitDescriptor_into(desc))
           c == created(buffers, buffer_id, buffer, ok) IN
       /\ buffers' = c.table
       /\ panicked' = (c.result = "panic")
       /\ tcall' = TableCall("create_buffer_with_data", buffer_id, desc, ok,
                             c.result, c.resource)
    /\ issued' = issued \cup {buffer_id}
    /\ UNCHANGED <<samplers, restOfTables>>

remove_buffer(id) ==
    /\ draft = "context"
    /\ ~panicked
    /\ buffers' = table_remove(buffers, id)
    /\ tcall' = TableCall("remove_buffer", id, NoDescriptor, TRUE, "unit",
                        NoResource)
    /\ UNCHANGED <<samplers, issued, panicked, restOfTables>>

----------------------------------------------------------------------------
\* Construction of the context: RenderContext::new of context.rs and of
\* render_context.rs (render.rs has the code of render_context.rs)

\* wgpu::Features: some of its flags, a value being the set of flags set.
Features ==
    {"DEPTH_CLAMPING", "TEXTURE_COMPRESSION_BC", "PIPELINE_STATISTICS_QUERY"}

\* Instance::request_adapter: Some(adapter) when an adapter satisfies the
\* options, None otherwise.
request_adapter(found) == IF found THEN "Some" ELSE "None"

\* Adapter::request_device: an Err when a requested feature is not one of the
\* adapter's, and whenever the backend refuses (granted = FALSE).
request_device(features, supported_features, granted) ==
    IF features \subseteq supported_features /\ granted THEN "Ok" ELSE "Err"

\* Features::contains
Features_contains(set, other) == other \subseteq set

\* Features::remove
Features_remove(set, other) == set \ other

NoBoot ==
    [op                 |-> "none",
     features           |-> {},
     supported_features |-> {},
     adapter            |-> "None",
     granted            |-> FALSE,
     result             |-> "none",
     payload            |-> {},
     context            |-> FALSE]

\* One call of RenderContext::new: what was asked, what the platform had,
\* what came back (result and the payload of the error), and whether a
\* RenderContext was produced.
Booted(op, features, supported_features, found, granted, outcome) ==
    [op                 |-> op,
     features           |-> features,
     supported_features |-> supported_features,
     adapter            |-> request_adapter(found),
     granted            |-> granted,
     result             |-> outcome.result,
     payload            |-> outcome.payload,
     context            |-> outcome.result \in {"Self", "Ok"}]

\* context.rs: the value RenderContext::new returns, or the panic it ends in.
context_new_outcome(features, supported_features, found, granted) ==
    IF request_adapter(found) = "None"
    THEN [result |-> "panic: Fail to request suitable adapter!",
          payload |-> {}]
    ELSE IF request_device(features, supported_features, granted) = "Err"
    THEN [result |-> "panic: Fail to request device", payload |-> {}]
    ELSE [result |-> "Self", payload |-> {}]

\* render_context.rs: the Result RenderContext::new returns.
render_context_new_outcome(features, supported_features, found, granted) ==
    IF request_adapter(found) = "None"
    THEN [result |-> "Err(FailedToRequestAdapter)", payload |-> {}]
    ELSE IF ~Features_contains(supported_features, features)
    THEN [result  |-> "Err(FeaturesNotSupported)",
          payload |-> Features_remove(features, supported_features)]
    ELSE IF request_device(features, supported_features, granted) = "Err"
    THEN [result |-> "Err(FailedToRequestDevice)", payload |-> {}]
    ELSE [result |-> "Ok", payload |-> {}]

\* What RenderContext::new leaves alone.
restOfBoot ==
    <<draft, last, prevLost, called, issued, tcall, lockVars, convVars>>

\* context.rs: RenderContext::new(desc) with desc.features = features, on a
\* platform where an adapter is found or not, has supported_features, and
\* grants the device or not.
context_new(features, supported_features, found, granted) ==
    /\ draft = "context"
    /\ ~panicked
    /\ LET outcome == context_new_outcome(features, supported_features,
                                          found, granted) IN
       /\ boot' = Booted("context::RenderContext::new", features,
                         supported_features, found, granted, outcome)
       /\ panicked' = (outcome.result # "Self")
    /\ surfaces' = {}
    /\ samplers' = {}
    /\ buffers' = {}
    /\ UNCHANGED <<size, sc_desc, swap_chain, restOfBoot>>

\* render_context.rs: RenderContext::new(desc) with desc.features = features
\* and a window of inner size sz.
render_context_new(features, sz, supported_features, found, granted) ==
    /\ draft = "legacy"
    /\ ~panicked
    /\ LET outcome == render_context_new_outcome(features, supported_features,
                                                 found, granted) IN
       /\ boot' = Booted("render_context::RenderContext::new", features,
                         supported_features, found, granted, outcome)
       /\ IF outcome.result = "Ok"
          THEN /\ size' = sz
               /\ sc_desc' =
                    SwapChainDescriptor(get_swap_chain_preferred_format, sz)
               /\ swap_chain' = create_swap_chain(sc_desc')
          ELSE UNCHANGED <<size, sc_desc, swap_chain>>
    /\ UNCHANGED <<surfaces, samplers, buffers, panicked, restOfBoot>>

----------------------------------------------------------------------------
\* The tokio RwLock around each table of ResourceContext, and the tasks that
\* call its methods.  A call is the steps a task on another thread can see:
\* the method awaits the lock of its table, the lock is granted, the body
\* runs up to a call of surface.configure or to its end, configure returns
\* and the method ends.  The end of a method drops its guard.

\* The tasks that share one ResourceContext (it is Clone; the tables are Arc).
Tasks == {"t1", "t2", "t3"}

\* surfaces, samplers, buffers: Arc<RwLock<HashMap<..>>>
Tables == {"surfaces", "samplers", "buffers"}

\* The async methods of ResourceContext.
Methods ==
    {"create_surface", "update_surface", "surface_next_frame",
     "create_sampler", "remove_sampler",
     "create_buffer", "create_buffer_with_data", "remove_buffer"}

\* self.surfaces / self.samplers / self.buffers: the field a method locks.
table_of(op) ==
    CASE op \in {"create_surface", "update_surface", "surface_next_frame"}
           -> "surfaces"
      [] op \in {"create_sampler", "remove_sampler"} -> "samplers"
      [] op \in {"create_buffer", "create_buffer_with_data", "remove_buffer"}
           -> "buffers"

\* Mutant: every method takes the lock with read().
lock_mode_shared(op) == "read"

\* .write().await or .read().await: what the method calls on the field.
lock_mode(op) == IF op = "surface_next_frame" THEN "read" ELSE "write"

\* The methods that make an id.
Creates == {"create_sampler", "create_buffer", "create_buffer_with_data"}

\* The number of calls the tasks make in all.
MaxCalls == 3

\* A task that is in no method and has called none (`calls` counts the
\* methods the task has called).
Idle ==
    [pc |-> "idle", op |-> "none", id |-> NoWindow, desc |-> NoDescriptor,
     calls |-> 0]

\* A lock nobody holds or waits for.
Unlocked == [writer |-> "none", readers |-> {}, queue |-> <<>>]

\* Mutant: the lock keeps nobody out.
can_grant_always(l, mode) == TRUE

\* tokio::sync::RwLock: a write guard needs the lock free of writer and
\* readers, a read guard needs it free of a writer.
can_grant(l, mode) ==
    IF mode = "write"
    THEN l.writer = "none" /\ l.readers = {}
    ELSE l.writer = "none"

\* The lock once task t has its guard.
held(l, t, mode) ==
    [writer  |-> IF mode = "write" THEN t ELSE "none",
     readers |-> IF mode = "read" THEN l.readers \cup {t} ELSE l.readers,
     queue   |-> l.queue]

\* Mutant: the guard is forgotten instead of dropped.
released_never(l, t) == l

\* The lock once the guard of task t is dropped.
released(l, t) ==
    [writer  |-> IF l.writer = t THEN "none" ELSE l.writer,
     readers |-> l.readers \ {t},
     queue   |-> l.queue]

\* The number of calls the tasks have made.
calls_made ==
    LET sum[ts \in SUBSET Tasks] ==
          IF ts = {} THEN 0
          ELSE LET u == CHOOSE u \in ts : TRUE IN task[u].calls + sum[ts \ {u}]
    IN sum[Tasks]

\* What no step of a task changes.
restOfLocks ==
    <<draft, panicked, size, sc_desc, swap_chain, last, prevLost, tcall,
      bootVars, convVars>>

\* Task t calls method op, which awaits the lock of its table.  The first
\* poll takes the lock when it is free and nobody waits for it; otherwise the
\* task joins the lock's queue (tokio serves waiters first in, first out).
\* A method that makes an id is called only while an id is left for it.
lock_await(t, op) ==
    /\ draft = "context"
    /\ task[t].pc = "idle"
    /\ calls_made < MaxCalls
    /\ op \in Creates =>
         Cardinality(issued)
           + Cardinality({u \in Tasks : task[u].op \in Creates}) < MaxIds
    /\ LET tb == table_of(op)
           l == lock[tb] IN
       IF l.queue = <<>> /\ can_grant(l, lock_mode(op))
       THEN /\ lock' = [lock EXCEPT ![tb] = held(l, t, lock_mode(op))]
            /\ task' = [task EXCEPT ![t] = [Idle EXCEPT !.pc = "inside",
                                                        !.op = op,
                                                        !.calls = task[t].calls + 1]]
       ELSE /\ lock' = [lock EXCEPT ![tb].queue = Append(@, t)]
            /\ task' = [task EXCEPT ![t] = [Idle EXCEPT !.pc = "waiting",
                                                        !.op = op,
                                                        !.calls = task[t].calls + 1]]
    /\ UNCHANGED <<surfaces, called, buffers, samplers, issued, restOfLocks>>

\* The await of task t completes: t is first in the queue and the lock can be
\* given in the mode its method asked for.
lock_granted(t) ==
    /\ task[t].pc = "waiting"
    /\ LET tb == table_of(task[t].op)
           mode == lock_mode(task[t].op)
           l == lock[tb] IN
       /\ l.queue # <<>>
       /\ Head(l.queue) = t
       /\ can_grant(l, mode)
       /\ lock' = [lock EXCEPT
                     ![tb] = held([l EXCEPT !.queue = Tail(@)], t, mode)]
    /\ task' = [task EXCEPT ![t].pc = "inside"]
    /\ UNCHANGED <<surfaces, called, buffers, samplers, issued, restOfLocks>>

\* The method of task t returns: its guard goes out of scope and gives the
\* lock back.
guard_drop(t) ==
    /\ lock' = [lock EXCEPT ![table_of(task[t].op)] = released(@, t)]
    /\ task' = [task EXCEPT ![t] = [Idle EXCEPT !.calls = task[t].calls]]

\* The method of task t panics: the task unwinds, which drops the guard (a
\* tokio RwLock is not poisoned), and the call never returns.
unwound(t) ==
    /\ lock' = [lock EXCEPT ![table_of(task[t].op)] = released(@, t)]
    /\ task' = [task EXCEPT ![t] = [Idle EXCEPT !.pc = "panicked",
                                                !.calls = task[t].calls]]

\* Task t is in the call surface.configure(&device, desc) for window id.
configuring(t, id, desc) ==
    /\ task' = [task EXCEPT ![t] = [pc   |-> "configuring",
                                    op   |-> task[t].op,
                                    id   |-> id,
                                    desc |-> desc,
                                    calls |-> task[t].calls]]
    /\ UNCHANGED lock

\* create_surface with its guard, up to the call of surface.configure: the
\* existence check, the new surface, the support check, the descriptor.
create_surface_body(t, window, supported) ==
    /\ task[t].pc = "inside"
    /\ task[t].op = "create_surface"
    /\ called' = called \cup {window.id}
    /\ IF already_created(surfaces, window.id)
       THEN guard_drop(t)
       ELSE IF supported
       THEN configuring(t, window.id,
                        SurfaceConfiguration(get_preferred_format(window.id),
                                             window.inner_size))
       ELSE unwound(t)
    /\ UNCHANGED <<surfaces, buffers, samplers, issued, restOfLocks>>

\* update_surface with its guard, up to the call of surface.configure: the
\* lookup and the two assignments to the stored descriptor.
update_surface_body(t, id, new_size) ==
    /\ task[t].pc = "inside"
    /\ task[t].op = "update_surface"
    /\ IF contains_key(surfaces, id)
       THEN LET desc == resized(get(surfaces, id).desc, new_size) IN
            /\ surfaces' = {IF e.id = id THEN [e EXCEPT !.desc = desc] ELSE e :
                              e \in surfaces}
            /\ configuring(t, id, desc)
       ELSE /\ surfaces' = surfaces
            /\ guard_drop(t)
    /\ UNCHANGED <<called, buffers, samplers, issued, restOfLocks>>

\* surface_next_frame with its guard, up to the call of surface.configure:
\* the lookup, get_current_frame, and the match on its result.
surface_next_frame_body(t, id, outcome) ==
    /\ task[t].pc = "inside"
    /\ task[t].op = "surface_next_frame"
    /\ IF contains_key(surfaces, id)
       THEN LET desc == get(surfaces, id).desc
                r == acquire(desc, outcome) IN
            IF r.result = "panic"
            THEN unwound(t)
            ELSE IF r.configured # <<>>
            THEN configuring(t, id, desc)
            ELSE guard_drop(t)
       ELSE guard_drop(t)
    /\ UNCHANGED <<surfaces, called, buffers, samplers, issued, restOfLocks>>

\* surface.configure returns and the method goes on to its end: create_surface
\* inserts the pair, the other two have nothing left to do.
surface_configured(t) ==
    /\ task[t].pc = "configuring"
    /\ surfaces' =
         IF task[t].op = "create_surface"
         THEN insert(surfaces, task[t].id, configure(task[t].desc),
                     task[t].desc)
         ELSE {IF e.id = task[t].id
               THEN [e EXCEPT !.surface = configure(task[t].desc)]
               ELSE e : e \in surfaces}
    /\ guard_drop(t)
    /\ UNCHANGED <<called, buffers, samplers, issued, restOfLocks>>

\* The body of create_sampler, create_buffer or create_buffer_with_data with
\* its guard: the id, the resource, the insert, the return.
create_body(t, desc, id, ok) ==
    /\ task[t].pc = "inside"
    /\ task[t].op \in Creates
    /\ id \in new_v4(issued)
    /\ issued' = issued \cup {id}
    /\ LET op == task[t].op
           resource ==
             CASE op = "create_sampler" ->
                    device_create_sampler(SamplerDescriptor_into(desc))
               [] op = "create_buffer" ->
                    device_create_buffer(BufferDescriptor_into(desc))
               [] op = "create_buffer_with_data" ->
                    device_create_buffer_init(BufferInitDescriptor_into(desc))
           c == created(IF op = "create_sampler" THEN samplers ELSE buffers,
                        id, resource, ok) IN
       /\ samplers' = (IF op = "create_sampler" THEN c.table ELSE samplers)
       /\ buffers' = (IF op = "create_sampler" THEN buffers ELSE c.table)
       /\ IF c.result = "panic" THEN unwound(t) ELSE guard_drop(t)
    /\ UNCHANGED <<surfaces, called, restOfLocks>>

\* The body of remove_sampler or remove_buffer with its guard.
remove_body(t, id) ==
    /\ task[t].pc = "inside"
    /\ task[t].op \in {"remove_sampler", "remove_buffer"}
    /\ samplers' = (IF task[t].op = "remove_sampler"
                    THEN table_remove(samplers, id) ELSE samplers)
    /\ buffers' = (IF task[t].op = "remove_buffer"
                   THEN table_remove(buffers, id) ELSE buffers)
    /\ guard_drop(t)
    /\ UNCHANGED <<surfaces, called, issued, restOfLocks>>

----------------------------------------------------------------------------
\* A window handed to create_surface: its id and its current inner size.
Window == [id : Windows, inner_size : PhysicalSize]

NoCall ==
    [op          |-> "new",
     id          |-> NoWindow,
     size        |-> NoSize,
     outcome     |-> NoOutcome,
     result      |-> "unit",
     created     |-> FALSE,
     configured  |-> <<>>,
     swap_chains |-> <<>>,
     pre         |-> {}]

\* No resource was created, no call of RenderContext::new is looked at, no
\* task is inside a method, nothing was translated.
TablesIdle ==
    /\ buffers = {}
    /\ samplers = {}
    /\ issued = {}
    /\ tcall = NoTableCall

BootIdle == boot = NoBoot

LocksIdle ==
    /\ task = [t \in Tasks |-> Idle]
    /\ lock = [tb \in Tables |-> Unlocked]

ConvIdle == conv = NoConv

\* The surface registry is empty and no call was made on it; the swap-chain
\* context is at its placeholder.
SurfacesIdle ==
    /\ surfaces = {}
    /\ called = {}
    /\ panicked = FALSE
    /\ last = NoCall
    /\ prevLost = NoWindow
    /\ size = NoSize
    /\ sc_desc = SwapChainDescriptor(get_swap_chain_preferred_format, NoSize)
    /\ swap_chain = create_swap_chain(sc_desc)

\* context.rs: RenderContext::new leaves the three tables empty.
\* render_context.rs: RenderContext::new creates the swap chain at the
\* window's inner size; the context of the other draft is not constructed
\* (its fields stay at a placeholder no action reads).
Init ==
    /\ draft \in {"context", "legacy"}
    /\ surfaces = {}
    /\ called = {}
    /\ panicked = FALSE
    /\ last = NoCall
    /\ prevLost = NoWindow
    /\ \E sz \in PosSizes :
         /\ size = (IF draft = "legacy" THEN sz ELSE NoSize)
         /\ sc_desc = SwapChainDescriptor(get_swap_chain_preferred_format, size)
         /\ swap_chain = create_swap_chain(sc_desc)
    /\ TablesIdle
    /\ BootIdle
    /\ LocksIdle
    /\ ConvIdle

Next ==
    \/ \E w \in Window, supported \in BOOLEAN : create_surface(w, supported)
    \/ \E id \in Windows, new_size \in PhysicalSize : update_surface(id, new_size)
    \/ \E id \in Windows, outcome \in Outcomes : surface_next_frame(id, outcome)
    \/ \E new_size \in PhysicalSize : update_swap_chain(new_size)
    \/ \E outcome \in Outcomes : get_current_frame(outcome)

Spec == Init /\ [][Next]_vars

\* The From impls of the descriptor translation layer, each applied to every
\* value of its enumeration.
InitTranslate ==
    /\ draft = "context"
    /\ SurfacesIdle
    /\ TablesIdle
    /\ BootIdle
    /\ LocksIdle
    /\ ConvIdle

NextTranslate ==
    \/ \E func \in CompareFunction : from_CompareFunction(func)
    \/ \E mode \in AddressMode : from_AddressMode(mode)
    \/ \E mode \in FilterMode : from_FilterMode(mode)
    \/ \E color \in SamplerBorderColor : from_SamplerBorderColor(color)
    \/ \E dimension \in TextureDimension : from_TextureDimension(dimension)
    \/ \E format \in TextureFormat : from_TextureFormat(format)

SpecTranslate == InitTranslate /\ [][NextTranslate]_vars

\* The calls on the sampler and buffer tables of a context, in any order.
InitTables ==
    /\ draft = "context"
    /\ SurfacesIdle
    /\ TablesIdle
    /\ BootIdle
    /\ LocksIdle
    /\ ConvIdle

NextTables ==
    \/ \E desc \in SamplerDescriptors, id \in Ids, ok \in BOOLEAN :
         create_sampler(desc, id, ok)
    \/ \E id \in Ids : remove_sampler(id)
    \/ \E desc \in BufferDescriptors, id \in Ids, ok \in BOOLEAN :
         create_buffer(desc, id, ok)
    \/ \E desc \in BufferInitDescriptors, id \in Ids, ok \in BOOLEAN :
         create_buffer_with_data(desc, id, ok)
    \/ \E id \in Ids : remove_buffer(id)

SpecTables == InitTables /\ [][NextTables]_vars

\* RenderContext::new of either draft, called with every feature set on every
\* platform.
InitBoot ==
    /\ draft \in {"context", "legacy"}
    /\ SurfacesIdle
    /\ TablesIdle
    /\ BootIdle
    /\ LocksIdle
    /\ ConvIdle

NextBoot ==
    \/ \E features \in SUBSET Features, supported_features \in SUBSET Features,
          found \in BOOLEAN, granted \in BOOLEAN :
         context_new(features, supported_features, found, granted)
    \/ \E features \in SUBSET Features, supported_features \in SUBSET Features,
          found \in BOOLEAN, granted \in BOOLEAN, sz \in PosSizes :
         render_context_new(features, sz, supported_features, found, granted)

SpecBoot == InitBoot /\ [][NextBoot]_vars

\* PipelineState::new(window) on a window of positive inner size, then resize
\* and render in any order.
InitPipeline ==
    /\ draft = "pipeline"
    /\ surfaces = {}
    /\ called = {}
    /\ panicked = FALSE
    /\ last = NoCall
    /\ prevLost = NoWindow
    /\ size \in PosWindowSizes
    /\ sc_desc = SwapChainDescriptor(get_swap_chain_preferred_format, size)
    /\ swap_chain = create_swap_chain(sc_desc)
    /\ TablesIdle
    /\ BootIdle
    /\ LocksIdle
    /\ ConvIdle

NextPipeline ==
    \/ \E new_size \in WindowSizes : resize(new_size)
    \/ \E outcome \in Outcomes : render(outcome)

SpecPipeline == InitPipeline /\ [][NextPipeline]_vars

\* Tasks calling the methods of one shared ResourceContext in any order.
InitLocks ==
    /\ draft = "context"
    /\ SurfacesIdle
    /\ TablesIdle
    /\ BootIdle
    /\ LocksIdle
    /\ ConvIdle

\* The windows, sizes and descriptors the tasks call the methods with.
TaskWindowIds == {"w1"}

TaskWindows ==
    {w \in Window : /\ w.id \in TaskWindowIds
                    /\ w.inner_size = [width |-> 1, height |-> 1]}

TaskSizes == {[width |-> MaxDim, height |-> 1]}

TaskDescriptor(op) ==
    CASE op = "create_sampler" -> SamplerDescriptor_default
      [] op = "create_buffer" ->
           [size |-> 256, usage |-> {"VERTEX", "COPY_DST"},
            mapped_at_creation |-> FALSE]
      [] op = "create_buffer_with_data" ->
           [contents |-> <<7, 8>>, usage |-> {"VERTEX"}]
      [] OTHER -> NoDescriptor

\* The steps of task t once it is in a method.
TaskStep(t) ==
    \/ lock_granted(t)
    \/ \E window \in TaskWindows, supported \in BOOLEAN :
         create_surface_body(t, window, supported)
    \/ \E id \in TaskWindowIds, new_size \in TaskSizes :
         update_surface_body(t, id, new_size)
    \/ \E id \in TaskWindowIds, outcome \in Outcomes :
         surface_next_frame_body(t, id, outcome)
    \/ surface_configured(t)
    \/ \E id \in Ids, ok \in BOOLEAN :
         create_body(t, TaskDescriptor(task[t].op), id, ok)
    \/ \E id \in Ids : remove_body(t, id)

NextLocks ==
    \/ \E t \in Tasks, op \in Methods : lock_await(t, op)
    \/ \E t \in Tasks : TaskStep(t)

SpecLocks == InitLocks /\ [][NextLocks]_vars

\* The same with every task that can take a step taking one in the end: the
\* runtime polls a woken task, and a body has no await of its own.
SpecLocksFair == SpecLocks /\ \A t \in Tasks : WF_vars(TaskStep(t))

\* The shape of the state: the fields of ResourceContext (surfaces) and of
\* the swap-chain RenderContext (size, sc_desc, swap_chain).
Configuration ==
    [usage        : {"RENDER_ATTACHMENT"},
     format       : {"Bgra8UnormSrgb", "Rgba8UnormSrgb"},
     width        : Dims \cup (0 .. MaxSide),
     height       : Dims \cup (0 .. MaxSide),
     present_mode : {"Mailbox", "Fifo"}]

TypeOK ==
    /\ draft \in {"context", "legacy", "pipeline"}
    /\ surfaces \subseteq
         [id : Windows, surface : Configuration, desc : Configuration]
    /\ panicked \in BOOLEAN
    /\ size \in PhysicalSize \cup WindowSizes
    /\ sc_desc \in Configuration
    /\ swap_chain \in Configuration
    /\ prevLost \in Windows \cup {NoWindow}
    /\ called \subseteq Windows
    /\ last.op \in {"new", "create_surface", "update_surface",
                    "surface_next_frame", "update_swap_chain",
                    "get_current_frame", "resize", "render"}
    /\ last.result \in {"unit", "Some", "None", "panic", "submitted"}
    /\ last.outcome \in Outcomes \cup {NoOutcome}
    /\ issued \subseteq Ids
    /\ table_keys(buffers) \cup table_keys(samplers) \subseteq issued
    /\ tcall.op \in {"new", "create_sampler", "remove_sampler",
                     "create_buffer", "create_buffer_with_data",
                     "remove_buffer"}
    /\ boot.features \subseteq Features
    /\ boot.payload \subseteq boot.features
    /\ boot.adapter \in {"Some", "None"}
    /\ \A t \in Tasks :
         /\ task[t].pc \in {"idle", "waiting", "inside", "configuring",
                            "panicked"}
         /\ task[t].op \in Methods \cup {"none"}
    /\ \A tb \in Tables :
         /\ lock[tb].writer \in Tasks \cup {"none"}
         /\ lock[tb].readers \subseteq Tasks
    /\ conv.kind \in {"none", "CompareFunction", "AddressMode", "FilterMode",
                      "SamplerBorderColor", "TextureDimension",
                      "TextureFormat"}

----------------------------------------------------------------------------
\* Properties of the surface registry

\* The call that led here was op, for a window that had an entry before it.
OnRegistered(op) == last.op = op /\ contains_key(last.pre, last.id)

\* The entry the window of the last call had before the call.
PreEntry == get(last.pre, last.id)

EntriesOf(id) == {e \in surfaces : e.id = id}

ZeroArea(sz) == sz.width = 0 \/ sz.height = 0

\* C1: create_surface for a window that already has an entry is a no-op: the
\* registry is what it was, it holds exactly one entry for the window, and
\* the call created and configured no native surface.
C1_CreateExistingIsNoOp ==
    OnRegistered("create_surface") =>
        /\ surfaces = last.pre
        /\ Cardinality(EntriesOf(last.id)) = 1
        /\ last.created = FALSE
        /\ last.configured = <<>>
        /\ last.result = "unit"

\* A second registration, of a window whose inner size is no longer the
\* stored one.
C1_Witness ==
    /\ OnRegistered("create_surface")
    /\ last.size.width # PreEntry.desc.width
    /\ last.size.height > 0

\* C2 (as claimed): update_surface with a zero width or height leaves the
\* stored configuration unchanged and does not reconfigure the surface.
C2_ZeroResizeIsNoOp ==
    (OnRegistered("update_surface") /\ ZeroArea(last.size)) =>
        /\ surfaces = last.pre
        /\ last.configured = <<>>

\* C3 (as claimed): every stored configuration has a positive width and
\* height.
C3_StoredSizePositive ==
    \A e \in surfaces : e.desc.width > 0 /\ e.desc.height > 0

\* C4: update_surface(W, (w, h)) with w, h > 0 on a registered window stores
\* exactly (w, h), leaves format, usage and present mode, and configures the
\* surface once, with the stored configuration.
C4_ResizeStoresExactSize ==
    (OnRegistered("update_surface") /\ ~ZeroArea(last.size)) =>
        /\ contains_key(surfaces, last.id)
        /\ LET e == get(surfaces, last.id) IN
           /\ e.desc.width = last.size.width
           /\ e.desc.height = last.size.height
           /\ last.configured = <<e.desc>>
           /\ e.surface = e.desc

\* A resize to a non-square size that differs from the stored one.
C4_Witness ==
    /\ OnRegistered("update_surface")
    /\ ~ZeroArea(last.size)
    /\ last.size.width # last.size.height
    /\ last.size.width # PreEntry.desc.width
    /\ last.size.height # PreEntry.desc.height

\* C5: a surface_next_frame that observes Lost returns None and configures
\* the surface exactly once, with the configuration stored for the window,
\* which it leaves as it is; the next surface_next_frame of that window
\* returns a frame when it observes no error.
C5_LostReconfiguresOnce ==
    /\ (last.op = "surface_next_frame" /\ last.outcome = "Lost") =>
          /\ last.result = "None"
          /\ ~panicked
          /\ last.configured = <<PreEntry.desc>>
          /\ get(surfaces, last.id).desc = PreEntry.desc
          /\ get(surfaces, last.id).surface = PreEntry.desc
    /\ (last.op = "surface_next_frame" /\ last.outcome = "Ok"
          /\ prevLost = last.id) =>
          last.result = "Some"

\* A frame acquired right after a call of the same window observed Lost, the
\* stored size being 1 x MaxDim.
C5_Witness ==
    /\ last.op = "surface_next_frame"
    /\ prevLost = last.id
    /\ last.outcome = "Ok"
    /\ PreEntry.desc.width = 1
    /\ PreEntry.desc.height = MaxDim

\* C6 (as claimed): a surface_next_frame that observes Outdated configures
\* the surface with the stored configuration and returns None.
C6_OutdatedReconfigures ==
    (last.op = "surface_next_frame" /\ last.outcome = "Outdated") =>
        /\ last.result = "None"
        /\ last.configured = <<PreEntry.desc>>

\* C6 (amended): a surface_next_frame that observes Outdated returns None,
\* configures nothing and leaves the registry as it was: the policy of a
\* timeout, not that of a lost surface.
C6_OutdatedSkipsFrame ==
    (last.op = "surface_next_frame" /\ last.outcome = "Outdated") =>
        /\ last.result = "None"
        /\ ~panicked
        /\ last.configured = <<>>
        /\ surfaces = last.pre

C6_Witness ==
    /\ last.op = "surface_next_frame"
    /\ last.outcome = "Outdated"
    /\ contains_key(surfaces, last.id)

\* C7: when frame acquisition reports OutOfMemory, surface_next_frame and
\* get_current_frame panic: they return nothing, configure no surface and
\* create no swap chain, and the process takes no further step.
C7_OutOfMemoryTerminates ==
    /\ [](last.outcome = "OutOfMemory" =>
            /\ last.op \in {"surface_next_frame", "get_current_frame"}
            /\ last.result = "panic"
            /\ panicked
            /\ last.configured = <<>>
            /\ last.swap_chains = <<>>
            /\ surfaces = last.pre)
    /\ [][~panicked]_vars

C7_Witness ==
    /\ last.op = "surface_next_frame"
    /\ last.outcome = "OutOfMemory"
    /\ panicked
    /\ Cardinality(surfaces) = 2

\* C8: a surface_next_frame that observes Timeout returns None, configures
\* nothing and leaves the registry unchanged; a surface_next_frame that
\* observes no error returns a frame whatever the calls before it were.
C8_TimeoutSkipsFrame ==
    /\ (last.op = "surface_next_frame" /\ last.outcome = "Timeout") =>
          /\ last.result = "None"
          /\ ~panicked
          /\ last.configured = <<>>
          /\ surfaces = last.pre
    /\ (last.op = "surface_next_frame" /\ last.outcome = "Ok") =>
          /\ last.result = "Some"
          /\ surfaces = last.pre

C8_Witness ==
    /\ last.op = "surface_next_frame"
    /\ last.outcome = "Timeout"
    /\ contains_key(surfaces, last.id)

\* C9: surface_next_frame and update_surface for a window without an entry
\* return None / return normally, do not panic, touch no native surface and
\* create no entry.
C9_UnregisteredIsNoOp ==
    (last.op \in {"surface_next_frame", "update_surface"}
        /\ ~contains_key(last.pre, last.id)) =>
        /\ last.result = (IF last.op = "update_surface" THEN "unit" ELSE "None")
        /\ ~panicked
        /\ last.created = FALSE
        /\ last.configured = <<>>
        /\ surfaces = last.pre
        /\ ~contains_key(surfaces, last.id)

\* update_surface for an unregistered window while the other one is
\* registered.
C9_Witness ==
    /\ last.op = "update_surface"
    /\ ~contains_key(last.pre, last.id)
    /\ ~ZeroArea(last.size)
    /\ surfaces # {}

\* C10: the registry holds at most one entry per window, an entry exists
\* only for a window create_surface was called for, and no step removes an
\* entry.
C10_OneEntryNeverRemoved ==
    /\ [](\A w \in Windows :
            /\ Cardinality(EntriesOf(w)) <= 1
            /\ contains_key(surfaces, w) => w \in called)
    /\ [][\A w \in Windows :
            contains_key(surfaces, w) => contains_key(surfaces', w)]_vars

\* Both windows registered, the last call a zero-area resize of one of them.
C10_Witness ==
    /\ Cardinality(surfaces) = 2
    /\ OnRegistered("update_surface")
    /\ ZeroArea(last.size)
    /\ called = Windows

\* create_surface was called for a window without an entry and stored none:
\* the adapter does not support the surface created for the window.
OnUnsupported ==
    /\ last.op = "create_surface"
    /\ ~contains_key(last.pre, last.id)
    /\ ~contains_key(surfaces, last.id)

\* create_surface stored the first entry of its window.
OnFirstRegistration ==
    /\ last.op = "create_surface"
    /\ ~contains_key(last.pre, last.id)
    /\ contains_key(surfaces, last.id)

\* C11 (as claimed): when the adapter does not support the surface,
\* create_surface hands a SurfaceUnsupported error to its caller, the process
\* goes on and the registry is unchanged.
C11_UnsupportedIsTypedError ==
    OnUnsupported =>
        /\ last.result = "SurfaceUnsupported"
        /\ ~panicked
        /\ surfaces = last.pre

\* C17: the entry stored by a first registration has the adapter's preferred
\* format for that surface and the window's inner size, and the surface was
\* configured once, with exactly the stored configuration.
C17_FirstRegistrationStoresWindow ==
    OnFirstRegistration =>
        LET e == get(surfaces, last.id) IN
        /\ e.desc.format = get_preferred_format(last.id)
        /\ e.desc.width = last.size.width
        /\ e.desc.height = last.size.height
        /\ e.desc.usage = "RENDER_ATTACHMENT"
        /\ last.created
        /\ last.configured = <<e.desc>>
        /\ e.surface = e.desc
        /\ surfaces = last.pre \cup {e}

\* The second window registered at MaxDim x 1 while the first has an entry.
C17_Witness ==
    /\ OnFirstRegistration
    /\ last.id = "w2"
    /\ last.pre # {}
    /\ last.size = [width |-> MaxDim, height |-> 1]

\* C18 (as claimed): a stored presentation mode is Mailbox when the surface
\* supports Mailbox and Fifo otherwise, so never a mode that is unavailable.
C18_PresentModeAvailable ==
    \A e \in surfaces :
        /\ e.desc.present_mode \in supported_present_modes(e.id)
        /\ e.desc.present_mode =
             (IF "Mailbox" \in supported_present_modes(e.id)
              THEN "Mailbox" ELSE "Fifo")

\* The fields of a stored configuration that registration fixes.
Fixed(desc) ==
    [usage        |-> desc.usage,
     format       |-> desc.format,
     present_mode |-> desc.present_mode]

\* C26: an entry that was in the registry before a call is there after it
\* with the same usage, format and presentation mode; update_surface and
\* surface_next_frame leave the entries of the windows they do not name as
\* they were, and surface_next_frame leaves every stored configuration as it
\* was.
C26_RegistrationFieldsAreFixed ==
    last.op \in {"create_surface", "update_surface", "surface_next_frame"} =>
        /\ \A e \in last.pre :
             /\ contains_key(surfaces, e.id)
             /\ Fixed(get(surfaces, e.id).desc) = Fixed(e.desc)
             /\ e.id # last.id => e \in surfaces
             /\ last.op = "surface_next_frame" =>
                  get(surfaces, e.id).desc = e.desc
        /\ last.op # "create_surface" =>
             {e.id : e \in surfaces} = {e.id : e \in last.pre}

\* An update_surface that changed the size stored for its window while
\* another window is registered.
C26_Witness ==
    /\ OnRegistered("update_surface")
    /\ get(surfaces, last.id).desc # PreEntry.desc
    /\ Cardinality(surfaces) = 2

\* C28 (as claimed): in the swap-chain context the stored size and the
\* width and height of sc_desc stay positive, and an update_swap_chain with a
\* zero width or height leaves size, sc_desc and the swap chain as they were.
C28_LegacyZeroResizeIsNoOp ==
    /\ [](draft = "legacy" =>
            /\ size.width > 0 /\ size.height > 0
            /\ sc_desc.width > 0 /\ sc_desc.height > 0)
    /\ [][last'.op = "update_swap_chain" /\ ZeroArea(last'.size) =>
            UNCHANGED legacyVars]_vars

\* C29 (as claimed): after an update_swap_chain with a positive width and
\* height, whatever came before, size and the width and height of sc_desc are
\* the new size and the swap chain was created again with that descriptor.
C29_LegacyResizeTakesEffect ==
    last.op = "update_swap_chain" /\ ~ZeroArea(last.size) =>
        /\ size = last.size
        /\ sc_desc.width = last.size.width
        /\ sc_desc.height = last.size.height
        /\ last.swap_chains = <<sc_desc>>
        /\ swap_chain = create_swap_chain(sc_desc)

----------------------------------------------------------------------------
\* Properties of the descriptor translation layer

\* The enumeration a kind names, and its From impl.
EnumOf(kind) ==
    CASE kind = "CompareFunction" -> CompareFunction
      [] kind = "AddressMode" -> AddressMode
      [] kind = "FilterMode" -> FilterMode
      [] kind = "SamplerBorderColor" -> SamplerBorderColor
      [] kind = "TextureDimension" -> TextureDimension
      [] kind = "TextureFormat" -> TextureFormat

IntoOf(kind, v) ==
    CASE kind = "CompareFunction" -> CompareFunction_into(v)
      [] kind = "AddressMode" -> AddressMode_into(v)
      [] kind = "FilterMode" -> FilterMode_into(v)
      [] kind = "SamplerBorderColor" -> SamplerBorderColor_into(v)
      [] kind = "TextureDimension" -> TextureDimension_into(v)
      [] kind = "TextureFormat" -> TextureFormat_into(v)

\* C20 (as claimed): every public value is translated to the wgpu value of
\* the same name, and two different values of the enumeration translated
\* never give the same wgpu value.
C20_TranslationKeepsName ==
    conv.kind # "none" =>
        /\ conv.native = "wgpu::" \o conv.public
        /\ \A other \in EnumOf(conv.kind) :
             other # conv.public => IntoOf(conv.kind, other) # conv.native

----------------------------------------------------------------------------
\* Properties of the sampler and buffer tables

\* The table a remove call names: before the call, and after it.
RemovedFrom(before, after) ==
    /\ \A e \in before : e.id # tcall.id => e \in after
    /\ \A e \in after : e \in before /\ e.id # tcall.id
    /\ tcall.id \notin table_keys(before) => after = before
    /\ tcall.result = "unit"

\* C13: remove_buffer(h) and remove_sampler(h) leave their table as it was
\* without the entry of h: every other entry stays, nothing is added, a
\* handle without an entry changes nothing, the call returns unit, and the
\* other table is not touched.
C13_RemoveIsTableMinusHandle ==
    /\ tcall.op = "remove_buffer" =>
         /\ RemovedFrom(tcall.buffers, buffers)
         /\ samplers = tcall.samplers
    /\ tcall.op = "remove_sampler" =>
         /\ RemovedFrom(tcall.samplers, samplers)
         /\ buffers = tcall.buffers

\* A remove_buffer with a handle that was issued and whose entry is already
\* gone, on a table that holds other buffers.
C13_Witness ==
    /\ tcall.op = "remove_buffer"
    /\ tcall.id \in tcall.issued
    /\ tcall.id \notin table_keys(tcall.buffers)
    /\ tcall.id \notin table_keys(tcall.samplers)
    /\ buffers # {}

\* The table a create call inserts into: before the call, and after it.
AddedTo(before, after) ==
    /\ tcall.result = "id"
    /\ tcall.id \notin table_keys(before)
    /\ before \subseteq after
    /\ after \ before = {[id |-> tcall.id, resource |-> tcall.resource]}
    /\ Cardinality(after) = Cardinality(before) + 1

\* Every entry of the table stays through the step, unless the step is the
\* remove call with its handle.
StaysUntil(table, tableNext, remove) ==
    \A e \in table :
        \/ e \in tableNext
        \/ tcall'.op = remove /\ tcall'.id = e.id

\* C14: create_buffer, create_buffer_with_data and create_sampler, when they
\* return, add one
\* entry under the handle they return and keep every entry that was there;
\* an entry leaves its table only in the remove call with its handle.
C14_CreateAddsOneEntry ==
    /\ [](/\ /\ tcall.op \in {"create_buffer", "create_buffer_with_data"}
             /\ tcall.result # "panic"
             => /\ AddedTo(tcall.buffers, buffers)
                /\ samplers = tcall.samplers
          /\ /\ tcall.op = "create_sampler"
             /\ tcall.result # "panic"
             => /\ AddedTo(tcall.samplers, samplers)
                /\ buffers = tcall.buffers)
    /\ [][/\ StaysUntil(buffers, buffers', "remove_buffer")
          /\ StaysUntil(samplers, samplers', "remove_sampler")]_vars

\* A create_buffer_with_data on a table that already holds a buffer: both
\* are in the table afterwards.
C14_Witness ==
    /\ tcall.op = "create_buffer_with_data"
    /\ tcall.result = "id"
    /\ tcall.buffers # {}
    /\ Cardinality(buffers) = 2

\* C22: when the device refuses the allocation inside create_buffer,
\* create_buffer_with_data or create_sampler, the call ends in the panic of
\* the failure instead of returning a handle, and both tables are exactly
\* those the call started from: the id made in the call has no entry.
C22_FailedCreateLeavesTable ==
    /\ tcall.op \in {"create_buffer", "create_buffer_with_data",
                     "create_sampler"}
    /\ ~tcall.ok
    => /\ tcall.result = "panic"
       /\ panicked
       /\ buffers = tcall.buffers
       /\ samplers = tcall.samplers
       /\ tcall.id \notin table_keys(buffers) \cup table_keys(samplers)

\* A create_buffer whose allocation failed on a table that holds a buffer.
C22_Witness ==
    /\ tcall.op = "create_buffer"
    /\ tcall.result = "panic"
    /\ tcall.buffers # {}

\* C27 (as claimed): the native descriptor create_buffer hands to the device
\* has the size, the usage and the mapped_at_creation of the descriptor the
\* caller gave.
C27_BufferDescriptorPreserved ==
    tcall.op = "create_buffer" /\ tcall.result = "id" =>
        /\ tcall.resource.desc.size = tcall.desc.size
        /\ tcall.resource.desc.usage = tcall.desc.usage
        /\ tcall.resource.desc.mapped_at_creation =
             tcall.desc.mapped_at_creation

----------------------------------------------------------------------------
\* Properties of RenderContext::new

\* RenderContext::new was called and an adapter was found.
OnAdapterFound == boot.op # "none" /\ boot.adapter = "Some"

\* C15 (as claimed): on an adapter, RenderContext::new returns the
\* unsupported-features error exactly when a requested feature is not among
\* the adapter's, and the error then carries the requested features the
\* adapter lacks, a non-empty set.
C15_FeaturesUnsupportedIsReported ==
    OnAdapterFound =>
        /\ boot.result = "Err(FeaturesNotSupported)" <=>
             ~(boot.features \subseteq boot.supported_features)
        /\ boot.result = "Err(FeaturesNotSupported)" =>
             /\ boot.payload = boot.features \ boot.supported_features
             /\ boot.payload # {}

\* C16 (as claimed): RenderContext::new returns the adapter-not-found error
\* when no adapter is found and the device-request error when the device
\* request fails, as values, and produces no context in either case.
C16_StartupErrorsAreValues ==
    /\ boot.op # "none" /\ boot.adapter = "None" =>
         /\ boot.result = "Err(FailedToRequestAdapter)"
         /\ ~boot.context
         /\ ~panicked
    /\ /\ OnAdapterFound
       /\ boot.features \subseteq boot.supported_features
       /\ ~boot.granted
       => /\ boot.result = "Err(FailedToRequestDevice)"
          /\ ~boot.context
          /\ ~panicked

----------------------------------------------------------------------------
\* Properties of the table locks

\* The tasks inside a method on table tb.
Inside(tb) ==
    {t \in Tasks : /\ task[t].pc \in {"inside", "configuring"}
                   /\ table_of(task[t].op) = tb}

\* C19: a task inside create_*, remove_*, update_surface or create_surface
\* holds the writer lock of its table and is the only task inside a method
\* on that table; a task inside surface_next_frame holds the reader lock
\* only, and every other task inside the registry is a surface_next_frame
\* too.
C19_WriterExcludesAll ==
    \A tb \in Tables : \A t \in Inside(tb) :
        IF task[t].op = "surface_next_frame"
        THEN /\ t \in lock[tb].readers
             /\ lock[tb].writer = "none"
             /\ \A u \in Inside(tb) : task[u].op = "surface_next_frame"
        ELSE /\ lock[tb].writer = t
             /\ lock[tb].readers = {}
             /\ Inside(tb) = {t}

\* Two tasks are inside surface_next_frame together while a third waits to
\* write the registry.
C19_Witness ==
    /\ Cardinality(Inside("surfaces")) = 2
    /\ \E t \in Tasks :
         /\ task[t].pc = "waiting"
         /\ table_of(task[t].op) = "surfaces"
         /\ lock_mode(task[t].op) = "write"

\* C21: the resource context has a table of textures behind a lock of its
\* own, and methods that work on it as the sampler and buffer methods work on
\* theirs.
C21_TextureTableKept ==
    /\ "textures" \in DOMAIN lock
    /\ \E op \in Methods : table_of(op) = "textures"

\* Task t has a guard of the lock of table tb.
holds(t, tb) == lock[tb].writer = t \/ t \in lock[tb].readers

\* Task t waits for the lock of table tb.
queued(t, tb) == \E i \in DOMAIN lock[tb].queue : lock[tb].queue[i] = t

\* A task in a method has the lock of the method's table in the method's
\* mode and nothing else; a task waiting is once in the queue of that table
\* and has no guard; a task in no method has no guard and waits for none.
OneLock(t) ==
    LET tk == task[t]
        own == table_of(tk.op) IN
    /\ tk.pc \in {"inside", "configuring"} =>
         /\ \A tb \in Tables : holds(t, tb) <=> tb = own
         /\ lock_mode(tk.op) = "write" =>
              lock[own].writer = t /\ t \notin lock[own].readers
         /\ lock_mode(tk.op) = "read" =>
              lock[own].writer # t /\ t \in lock[own].readers
         /\ \A tb \in Tables : ~queued(t, tb)
    /\ tk.pc = "waiting" =>
         /\ \A tb \in Tables : ~holds(t, tb)
         /\ \A tb \in Tables : queued(t, tb) <=> tb = own
         /\ Cardinality({i \in DOMAIN lock[own].queue :
                           lock[own].queue[i] = t}) = 1
    /\ tk.pc \in {"idle", "panicked"} =>
         \A tb \in Tables : ~holds(t, tb) /\ ~queued(t, tb)

\* A guard is taken only at the start of a method, and a read guard never
\* becomes a write guard.
AcquiredOnce(t) ==
    \A tb \in Tables :
      /\ holds(t, tb)' /\ ~holds(t, tb) => task[t].pc \in {"idle", "waiting"}
      /\ t \in lock[tb].readers => lock'[tb].writer # t

\* Task t is in a call that has not ended.
InCall(t) == task[t].pc \in {"waiting", "inside", "configuring"}

\* C23: every method takes the lock of one table, once, in one mode, has no
\* lock of another table, and gives it back when it ends; whenever a call has
\* not ended some task can take a step; and every call ends, by returning or
\* by the panic of the out-of-memory or unsupported-surface path.
C23_OneLockPerCall ==
    /\ [](\A t \in Tasks : OneLock(t))
    /\ [][\A t \in Tasks : AcquiredOnce(t)]_vars
    /\ []((\E t \in Tasks : InCall(t)) => \E t \in Tasks : ENABLED TaskStep(t))
    /\ \A t \in Tasks : InCall(t) ~> ~InCall(t)

\* One task writes the registry, one writes the buffers, and the third waits
\* for the registry.
C23_Witness ==
    \E t, u, v \in Tasks :
      /\ task[t].pc = "inside" /\ task[t].op = "update_surface"
      /\ task[u].pc = "inside" /\ task[u].op = "create_buffer"
      /\ task[v].pc = "waiting" /\ task[v].op = "surface_next_frame"
      /\ lock["surfaces"].writer = t
      /\ lock["buffers"].writer = u
      /\ lock["surfaces"].queue = <<v>>

\* C24: a task that is in surface.configure has the write guard of the
\* registry, and no two tasks are in surface.configure for one window.
C24_ConfigureIsExclusive ==
    /\ \A t \in Tasks :
         task[t].pc = "configuring" => lock["surfaces"].writer = t
    /\ \A t, u \in Tasks :
         /\ t # u
         /\ task[t].pc = "configuring"
         /\ task[u].pc = "configuring"
         => task[t].id # task[u].id

\* Task t is in create_surface between the existence check and the insert.
Creating(t) == task[t].pc = "configuring" /\ task[t].op = "create_surface"

\* The method of task t, one of ops, ends in this step by returning.
Returns(t, ops) ==
    /\ task[t].pc \in {"inside", "configuring"}
    /\ task[t].op \in ops
    /\ task'[t].pc = "idle"

\* C25: between the existence check of a create_surface and its insert no
\* other task makes an entry for the window, so the insert adds an entry to
\* a registry that had none for the window, configured once with the
\* descriptor of this call, and the registry has one entry per window; a
\* create_sampler, create_buffer or create_buffer_with_data that returns has
\* added one entry and kept all others, and an entry leaves a table only by
\* the remove method of the table.
C25_WritesAreAtomic ==
    /\ [](\A t \in Tasks : Creating(t) =>
            /\ ~contains_key(surfaces, task[t].id)
            /\ \A u \in Tasks \ {t} : Creating(u) => task[u].id # task[t].id)
    /\ [](\A e, f \in surfaces : e.id = f.id => e = f)
    /\ [][\A t \in Tasks :
            /\ Creating(t) /\ Returns(t, {"create_surface"}) =>
                 /\ surfaces' = surfaces \cup
                      {[id |-> task[t].id, surface |-> task[t].desc,
                        desc |-> task[t].desc]}
                 /\ Cardinality(surfaces') = Cardinality(surfaces) + 1
            /\ Returns(t, Creates) =>
                 /\ samplers \subseteq samplers'
                 /\ buffers \subseteq buffers'
                 /\ Cardinality(samplers') + Cardinality(buffers')
                      = Cardinality(samplers) + Cardinality(buffers) + 1
                 /\ table_keys(samplers') \cap table_keys(buffers') = {}]_vars
    /\ [][/\ table_keys(surfaces) \subseteq table_keys(surfaces')
          /\ ~(samplers \subseteq samplers') =>
               \E t \in Tasks : Returns(t, {"remove_sampler"})
          /\ ~(buffers \subseteq buffers') =>
               \E t \in Tasks : Returns(t, {"remove_buffer"})]_vars

\* One task is in create_surface between check and insert, a second has
\* called create_surface and waits, and the third is in create_sampler.
C25_Witness ==
    \E t, u, v \in Tasks :
      /\ Creating(t)
      /\ task[u].pc = "waiting" /\ task[u].op = "create_surface"
      /\ task[v].pc = "inside" /\ task[v].op = "create_sampler"

----------------------------------------------------------------------------
\* Properties of PipelineState

\* C30: size and sc_desc agree in width and height and both are positive; a
\* resize with a zero width or height changes nothing; a render that gets
\* Lost creates the swap chain again at the size it has and submits nothing;
\* a render that gets another error changes nothing and submits nothing.
C30_PipelineSizeInvariant ==
    /\ [](draft = "pipeline" =>
            /\ size.width = sc_desc.width /\ size.height = sc_desc.height
            /\ size.width > 0 /\ size.height > 0
            /\ swap_chain = create_swap_chain(sc_desc))
    /\ [][/\ last'.op = "resize" /\ ZeroArea(last'.size) =>
               /\ UNCHANGED <<size, sc_desc, swap_chain>>
               /\ last'.swap_chains = <<>>
          /\ last'.op = "render" /\ last'.outcome = "Lost" =>
               /\ UNCHANGED <<size, sc_desc>>
               /\ last'.swap_chains = <<sc_desc>>
               /\ swap_chain' = create_swap_chain(sc_desc)
               /\ last'.result # "submitted"
          /\ last'.op = "render" /\ last'.outcome \notin {"Ok", "Lost"} =>
               /\ UNCHANGED <<size, sc_desc, swap_chain>>
               /\ last'.swap_chains = <<>>
               /\ last'.result # "submitted"]_vars

\* A render that got Lost after the size was changed by a resize.
C30_Witness ==
    /\ draft = "pipeline"
    /\ last.op = "render"
    /\ last.outcome = "Lost"
    /\ last.swap_chains = <<sc_desc>>
    /\ size.width # size.height

====
